---- MODULE Spec2Model ----
(***************************************************************************)
(* Model of readium-processor-lambda (src/main.go, first program text,     *)
(* lines 1-1221).                                                          *)
(*                                                                         *)
(* Strings that the code inspects (hrefs, storage paths, document bytes)   *)
(* are sequences of one-character strings, so that strings.Index,          *)
(* strings.HasPrefix, strings.TrimPrefix and the anchor regular expression *)
(* are computed character by character as the Go code computes them.       *)
(*                                                                         *)
(* Eight specifications share the module:                                  *)
(*   Spec            processEPUB: the resource walker and the uploads that *)
(*                   follow it, one action per processed manifest item;    *)
(*   SpecPos         generatePositionsJSON, pass 1 and pass 2;             *)
(*   SpecRewrite     rewriteLinksInXHTML on a document;                    *)
(*   SpecManifest    generateManifestWithSupabaseURLs;                     *)
(*   SpecContentType getContentType on a path;                             *)
(*   SpecHandler     handler, with processEPUB as one step;                *)
(*   SpecContent     generateContentJSON;                                  *)
(*   SpecBasePath    the base path processEPUB derives from a filename.    *)
(***************************************************************************)
EXTENDS Integers, Sequences, FiniteSets, TLC

VARIABLES
    manifest,      \* pub.Manifest: readingOrder, toc, links, resources
    pc,            \* position of processEPUB
    k,             \* index of the next item of the collection being walked
    resourceMap,   \* map[string]string of extractAndUploadResources
    reads,         \* log of resource.Read calls of processResource
    uploads,       \* log of uploadToSupabase calls (path, outcome)
    status,        \* HTTP status the handler answers, 0 while running
    failedAt       \* the collection whose item made the walker return an error

wvars == <<manifest, pc, k, resourceMap, reads, uploads, status, failedAt>>

VARIABLES
    ppc,           \* position of generatePositionsJSON
    readingChars,  \* per reading-order item: byte length of its content, or -1 when the read fails
    pi,            \* loop index over manifest.ReadingOrder / resourceInfos
    resourceInfos, \* []resourceInfo built by pass 1
    totalChars,
    positionCounter,
    cumulativeChars,
    positions,     \* the position entries emitted by pass 2
    positionsTotal \* the "total" field of the document, -1 until it is produced

pvars == <<ppc, readingChars, pi, resourceInfos, totalChars, positionCounter,
           cumulativeChars, positions, positionsTotal>>

VARIABLES
    rpc,           \* position of rewriteLinksInXHTML
    segs,          \* the markup pieces the document was assembled from
    content,       \* input bytes
    cursor,        \* index of the first input byte not yet copied or replaced
    modifiedContent \* output bytes

rvars == <<rpc, segs, content, cursor, modifiedContent>>

VARIABLES
    srcManifest,     \* the manifest handed to generateManifestWithSupabaseURLs
    mpc,             \* position of generateManifestWithSupabaseURLs
    updatedManifest, \* map[string]interface{} being built
    landmarks,       \* the landmarks slice
    landmarkHrefs    \* map[string]bool of the hrefs already added

mvars == <<srcManifest, mpc, updatedManifest, landmarks, landmarkHrefs>>

VARIABLES
    pathArg,         \* argument path of getContentType
    tpc,             \* position of the call of getContentType
    contentType      \* its result

tvars == <<pathArg, tpc, contentType>>

VARIABLES
    request,         \* events.LambdaFunctionURLRequest
    env,             \* SUPABASE_URL and SUPABASE_SERVICE_ROLE_KEY
    hpc,             \* position of handler
    epubFilename,    \* the local epubFilename of handler
    response,        \* the returned events.LambdaFunctionURLResponse and error
    downloads,       \* log of downloadEPUBFromSupabase calls (storageURL)
    processed        \* log of processEPUB calls, the only place of uploads

hvars == <<request, env, hpc, epubFilename, response, downloads, processed>>

VARIABLES
    cpc,             \* position of generateContentJSON
    structure,       \* its content slice
    contentData      \* the document it marshals

cvars == <<cpc, structure, contentData>>

VARIABLES
    runs             \* log of the base paths processEPUB derived, one per call

bvars == <<runs>>

svars == <<mvars, tvars, hvars, cvars, bvars>>

vars == <<wvars, pvars, rvars, svars>>

MIdle ==
    /\ srcManifest = [readingOrder |-> <<>>, toc |-> <<>>, links |-> <<>>, resources |-> <<>>]
    /\ mpc = "idle"
    /\ updatedManifest = <<>>
    /\ landmarks = <<>>
    /\ landmarkHrefs = {}

TIdle ==
    /\ pathArg = <<>>
    /\ tpc = "idle"
    /\ contentType = [type |-> "", params |-> ""]

HIdle ==
    /\ request = [method |-> "", body |-> [kind |-> "empty", filename |-> <<>>],
                  query |-> <<>>]
    /\ env = [url |-> <<>>, key |-> <<>>]
    /\ hpc = "idle"
    /\ epubFilename = <<>>
    /\ response = [statusCode |-> 0, body |-> [kind |-> "none", status |-> 0],
                   err |-> "nil"]
    /\ downloads = <<>>
    /\ processed = <<>>

CIdle ==
    /\ cpc = "idle"
    /\ structure = <<>>
    /\ contentData = <<>>

BIdle == runs = <<>>

SIdle == MIdle /\ TIdle /\ HIdle /\ CIdle /\ BIdle

-----------------------------------------------------------------------------
(* Go strings package, on sequences of characters.                          *)

RECURSIVE IndexFrom(_, _, _)
IndexFrom(s, c, i) ==
    IF i > Len(s) THEN 0
    ELSE IF s[i] = c THEN i
    ELSE IndexFrom(s, c, i + 1)

\* strings.Index(s, c) for a one-character c, 1-based; 0 stands for Go's -1.
Index(s, c) == IndexFrom(s, c, 1)

HasPrefix(s, p) == Len(s) >= Len(p) /\ SubSeq(s, 1, Len(p)) = p

HasSuffix(s, p) == Len(s) >= Len(p) /\ SubSeq(s, Len(s) - Len(p) + 1, Len(s)) = p

TrimPrefix(s, p) == IF HasPrefix(s, p) THEN SubSeq(s, Len(p) + 1, Len(s)) ELSE s

\* hrefStr[:idx] when the href holds a '#', the href itself otherwise.
BaseHref(hrefStr) ==
    IF Index(hrefStr, "#") > 0 THEN SubSeq(hrefStr, 1, Index(hrefStr, "#") - 1)
    ELSE hrefStr

-----------------------------------------------------------------------------
(* Inputs of the walker.                                                    *)

MaxItems == 1     \* items of the reading order, of the TOC roots and of the resources
MaxLinks == 2     \* items of manifest.Links

Slash == <<"/">>
DotHtml == <<".", "h", "t", "m", "l">>
DotXhtml == <<".", "x", "h", "t", "m", "l">>
HttpPrefix == <<"h", "t", "t", "p", ":", "/", "/">>
HttpsPrefix == <<"h", "t", "t", "p", "s", ":", "/", "/">>
TildePrefix == <<"~">>

XhtmlType == "application/xhtml+xml"
HtmlType == "text/html"

Link(h, t) == [href |-> h, type |-> t, children |-> <<>>]

hA == <<"a", ".", "h", "t", "m", "l">>
hSlashA == <<"/", "a", ".", "h", "t", "m", "l">>
hAFrag == <<"a", ".", "h", "t", "m", "l", "#", "s">>
hC == <<"c", ".", "c", "s", "s">>
hN == <<"n", ".", "h", "t", "m", "l">>
hFragOnly == <<"#", "s">>
hExternal == HttpPrefix \o <<"e">>
hTilde == <<"~", "r">>

ReadingOrderPool == {Link(hA, XhtmlType), Link(hSlashA, ""), Link(hAFrag, XhtmlType)}
\* hrefs of TOC entries: one with a fragment, one that is only a fragment
TocHrefPool == {hAFrag, hFragOnly}
LinksPool == {Link(hC, ""), Link(hAFrag, ""), Link(hExternal, ""), Link(hTilde, "")}
ResourcesPool == {Link(hC, "text/css"), Link(hA, "")}

SeqsUpTo(S, n) == UNION {[1..m -> S] : m \in 0..n}

TocLeaf(h) == [href |-> h, type |-> "", children |-> <<>>]

\* TOC entries without children, and one entry with a nested child entry
\* whose resource no other collection references
TocNodes ==
    {TocLeaf(h) : h \in TocHrefPool}
    \cup {[href |-> hAFrag, type |-> "", children |-> <<TocLeaf(hN)>>]}

Manifests ==
    [readingOrder : SeqsUpTo(ReadingOrderPool, MaxItems),
     toc : SeqsUpTo(TocNodes, MaxItems),
     links : SeqsUpTo(LinksPool, MaxLinks),
     resources : SeqsUpTo(ResourcesPool, MaxItems)]

\* basePath of processEPUB for the file b.epub
basePath == <<"b">>

PositionsFile == <<"r", "e", "a", "d", "i", "u", "m", "/",
                   "p", "o", "s", "i", "t", "i", "o", "n", "s", ".", "j", "s", "o", "n">>
ContentFile == <<"r", "e", "a", "d", "i", "u", "m", "/",
                 "c", "o", "n", "t", "e", "n", "t", ".", "j", "s", "o", "n">>
ManifestFile == <<"m", "a", "n", "i", "f", "e", "s", "t", ".", "j", "s", "o", "n">>

-----------------------------------------------------------------------------
(* The resource walker.                                                     *)

NoLink == [href |-> <<>>, type |-> "nil", children |-> <<>>]

RECURSIVE FindByHref(_, _, _, _)
\* first link of collection c, from index i on, whose href (fragment removed
\* when strip) equals href
FindByHref(c, href, strip, i) ==
    IF i > Len(c) THEN NoLink
    ELSE IF (IF strip THEN BaseHref(c[i].href) ELSE c[i].href) = href THEN c[i]
    ELSE FindByHref(c, href, strip, i + 1)

findLinkInManifest(href, m) ==
    IF FindByHref(m.readingOrder, href, FALSE, 1) # NoLink
        THEN FindByHref(m.readingOrder, href, FALSE, 1)
    ELSE IF FindByHref(m.resources, href, FALSE, 1) # NoLink
        THEN FindByHref(m.resources, href, FALSE, 1)
    ELSE FindByHref(m.toc, href, TRUE, 1)

\* isXHTML of processResource: by media type, else by file extension
isXHTML(href, manifestLink) ==
    \/ manifestLink # NoLink /\ manifestLink.type \in {XhtmlType, HtmlType}
    \/ HasSuffix(href, DotXhtml)
    \/ HasSuffix(href, DotHtml)

\* storagePath of processResource: basePath/resourcePath
storagePathOf(href) == basePath \o Slash \o TrimPrefix(href, Slash)

\* variant of alreadyProcessed that never skips
alreadyProcessedNoCheck(href) == FALSE

\* the "already processed" test of processResource
alreadyProcessed(href) == href \in DOMAIN resourceMap

publicURL(path) == <<"public:">> \o path

Outcomes == {"ok", "readFail", "uploadFail"}

\* processResource(href, manifestLink, ...) with the given outcome of its
\* collaborators; err' tells whether it returns an error.
processResource(href, manifestLink, outcome, err) ==
    IF alreadyProcessed(href)
    THEN /\ err = FALSE
         /\ UNCHANGED <<resourceMap, reads, uploads>>
    ELSE /\ reads' = Append(reads, [href |-> href, at |-> pc, item |-> k,
                                   ok |-> outcome # "readFail"])
         /\ IF outcome = "readFail"
            THEN /\ err = TRUE
                 /\ UNCHANGED <<resourceMap, uploads>>
            ELSE /\ uploads' = Append(uploads,
                        [kind |-> "resource",
                         href |-> href,
                         at |-> pc,
                         item |-> k,
                         path |-> storagePathOf(href),
                         rewritten |-> isXHTML(href, manifestLink),
                         ok |-> outcome = "ok"])
                 /\ IF outcome = "ok"
                    THEN /\ err = FALSE
                         /\ resourceMap' =
                              [h \in DOMAIN resourceMap \cup {href} |->
                                 IF h = href THEN publicURL(storagePathOf(href))
                                 ELSE resourceMap[h]]
                    ELSE /\ err = TRUE
                         /\ UNCHANGED resourceMap

\* where the walker goes after item k of collection at: the next item, or the
\* first following collection that has items, or the end of the walker
Phases == <<"readingOrder", "toc", "links", "resources">>

PhaseItems(m, p) ==
    CASE p = "readingOrder" -> m.readingOrder
      [] p = "toc" -> m.toc
      [] p = "links" -> m.links
      [] p = "resources" -> m.resources

RECURSIVE FirstPhaseFrom(_, _)
FirstPhaseFrom(m, n) ==
    IF n > Len(Phases) THEN "positions"
    ELSE IF Len(PhaseItems(m, Phases[n])) > 0 THEN Phases[n]
    ELSE FirstPhaseFrom(m, n + 1)

PhaseNo(p) == CHOOSE n \in 1..Len(Phases) : Phases[n] = p

\* variant of Advance in which the loop stays on its item
AdvanceRepeating(p) == pc' = p /\ k' = k

Advance(p) ==
    IF k < Len(PhaseItems(manifest, p))
    THEN pc' = p /\ k' = k + 1
    ELSE pc' = FirstPhaseFrom(manifest, PhaseNo(p) + 1) /\ k' = 1

\* variant of WalkerFails in which the loop goes on after the error
WalkerContinues(p) == Advance(p) /\ UNCHANGED <<status, failedAt>>

\* the walker returns an error: processEPUB returns it, the handler answers 500
WalkerFails(p) ==
    /\ pc' = "done"
    /\ status' = 500
    /\ failedAt' = p
    /\ UNCHANGED k

-----------------------------------------------------------------------------
(* processEPUB, one action per step.                                        *)

\* zip reader, archive, parser and builder of processEPUB; any failure is
\* returned before a resource is touched
parseEPUB ==
    /\ pc = "parse"
    /\ \E ok \in BOOLEAN :
          IF ok
          THEN /\ pc' = FirstPhaseFrom(manifest, 1)
               /\ UNCHANGED <<status, failedAt>>
          ELSE /\ pc' = "done"
               /\ status' = 500
               /\ failedAt' = "parse"
    /\ UNCHANGED <<manifest, k, resourceMap, reads, uploads>>

\* one iteration of "for _, link := range manifest.ReadingOrder"
walkReadingOrder ==
    /\ pc = "readingOrder"
    /\ LET link == manifest.readingOrder[k] IN
       \E outcome \in Outcomes, err \in BOOLEAN :
          /\ processResource(link.href, link, outcome, err)
          /\ IF err THEN WalkerFails("readingOrder")
             ELSE Advance("readingOrder") /\ UNCHANGED <<status, failedAt>>
    /\ UNCHANGED manifest

\* one iteration of "for _, link := range manifest.TableOfContents"
walkTableOfContents ==
    /\ pc = "toc"
    /\ LET baseHref == BaseHref(manifest.toc[k].href) IN
       IF baseHref # <<>>
       THEN \E outcome \in Outcomes, err \in BOOLEAN :
               /\ processResource(baseHref, findLinkInManifest(baseHref, manifest),
                                  outcome, err)
               /\ IF err THEN WalkerFails("toc")
                  ELSE Advance("toc") /\ UNCHANGED <<status, failedAt>>
       ELSE /\ Advance("toc")
            /\ UNCHANGED <<resourceMap, reads, uploads, status, failedAt>>
    /\ UNCHANGED manifest

\* the test that lets a generic link through to processResource
looksLikeResource(hrefStr) ==
    /\ ~HasPrefix(hrefStr, HttpPrefix)
    /\ ~HasPrefix(hrefStr, HttpsPrefix)
    /\ ~HasPrefix(hrefStr, TildePrefix)

\* variant of linkErrorIsFatal in which the links loop returns the error
linkErrorIsFatalMutant(err) == err

\* how the links loop treats an error of processResource: it logs it and goes on
linkErrorIsFatal(err) == FALSE

\* one iteration of "for _, link := range manifest.Links"
walkLinks ==
    /\ pc = "links"
    /\ LET hrefStr == manifest.links[k].href
           baseHref == BaseHref(hrefStr) IN
       IF looksLikeResource(hrefStr) /\ baseHref # <<>>
       THEN \E outcome \in Outcomes, err \in BOOLEAN :
               /\ processResource(baseHref, findLinkInManifest(baseHref, manifest),
                                  outcome, err)
               /\ IF linkErrorIsFatal(err) THEN WalkerFails("links")
                  ELSE Advance("links") /\ UNCHANGED <<status, failedAt>>
       ELSE /\ Advance("links")
            /\ UNCHANGED <<resourceMap, reads, uploads, status, failedAt>>
    /\ UNCHANGED manifest

\* one iteration of "for _, link := range manifest.Resources"
walkResources ==
    /\ pc = "resources"
    /\ LET link == manifest.resources[k] IN
       \E outcome \in Outcomes, err \in BOOLEAN :
          /\ processResource(link.href, link, outcome, err)
          /\ IF err THEN WalkerFails("resources")
             ELSE Advance("resources") /\ UNCHANGED <<status, failedAt>>
    /\ UNCHANGED manifest

\* variant of uploadGenerated in which processEPUB goes on after a failed upload
uploadGeneratedIgnoringError(at, file, next, okStatus) ==
    /\ pc = at
    /\ \E ok \in BOOLEAN :
          uploads' = Append(uploads,
                 [kind |-> "generated", href |-> <<>>, at |-> at, item |-> 0,
                  path |-> basePath \o Slash \o file,
                  rewritten |-> FALSE, ok |-> ok])
    /\ pc' = next
    /\ status' = okStatus
    /\ UNCHANGED <<manifest, k, resourceMap, reads, failedAt>>

\* uploadToSupabase(path, ...) for a generated document, called at step at;
\* on success processEPUB goes on to next, on failure it returns the error
uploadGenerated(at, file, next, okStatus) ==
    /\ pc = at
    /\ \E ok \in BOOLEAN :
          /\ uploads' = Append(uploads,
                 [kind |-> "generated", href |-> <<>>, at |-> at, item |-> 0,
                  path |-> basePath \o Slash \o file,
                  rewritten |-> FALSE, ok |-> ok])
          /\ IF ok
             THEN pc' = next /\ status' = okStatus /\ UNCHANGED failedAt
             ELSE pc' = "done" /\ status' = 500 /\ failedAt' = at
    /\ UNCHANGED <<manifest, k, resourceMap, reads>>

\* generateAndUploadReadiumFiles, first half: positions.json
uploadPositions == uploadGenerated("positions", PositionsFile, "content", 0)

\* generateAndUploadReadiumFiles, second half: content.json
uploadContent == uploadGenerated("content", ContentFile, "manifest", 0)

\* generateManifestWithSupabaseURLs and the upload of manifest.json; the
\* handler answers 200 when it succeeds
uploadManifest == uploadGenerated("manifest", ManifestFile, "done", 200)

WInit ==
    /\ manifest \in Manifests
    /\ pc = "parse"
    /\ k = 1
    /\ resourceMap = <<>>
    /\ reads = <<>>
    /\ uploads = <<>>
    /\ status = 0
    /\ failedAt = "none"

WIdle ==
    /\ manifest = [readingOrder |-> <<>>, toc |-> <<>>, links |-> <<>>, resources |-> <<>>]
    /\ pc = "idle"
    /\ k = 1
    /\ resourceMap = <<>>
    /\ reads = <<>>
    /\ uploads = <<>>
    /\ status = 0
    /\ failedAt = "none"

PIdle ==
    /\ ppc = "idle"
    /\ readingChars = <<>>
    /\ pi = 1
    /\ resourceInfos = <<>>
    /\ totalChars = 0
    /\ positionCounter = 1
    /\ cumulativeChars = 0
    /\ positions = <<>>
    /\ positionsTotal = -1

RIdle ==
    /\ rpc = "idle"
    /\ segs = <<>>
    /\ content = <<>>
    /\ cursor = 1
    /\ modifiedContent = <<>>

Init == WInit /\ PIdle /\ RIdle /\ SIdle

Next ==
    \/ parseEPUB /\ UNCHANGED <<pvars, rvars, svars>>
    \/ walkReadingOrder /\ UNCHANGED <<pvars, rvars, svars>>
    \/ walkTableOfContents /\ UNCHANGED <<pvars, rvars, svars>>
    \/ walkLinks /\ UNCHANGED <<pvars, rvars, svars>>
    \/ walkResources /\ UNCHANGED <<pvars, rvars, svars>>
    \/ uploadPositions /\ UNCHANGED <<pvars, rvars, svars>>
    \/ uploadContent /\ UNCHANGED <<pvars, rvars, svars>>
    \/ uploadManifest /\ UNCHANGED <<pvars, rvars, svars>>

Spec == Init /\ [][Next]_vars

-----------------------------------------------------------------------------
(* Properties of the resource walker and of processEPUB.                    *)

ResourceUploads == {i \in 1..Len(uploads) : uploads[i].kind = "resource"}
GeneratedUploads == {i \in 1..Len(uploads) : uploads[i].kind = "generated"}

\* the uploads that stored the resource of href h
UploadsFor(h) == {i \in ResourceUploads : uploads[i].href = h /\ uploads[i].ok}

UploadedHrefs == {uploads[i].href : i \in ResourceUploads}

RequiredPhases == {"readingOrder", "toc", "resources"}

\* C1: within one run of the walker every href has at most one performed
\* upload, and it has a Resource Map entry exactly when it has that upload,
\* however many collections reference it.
C1_AtMostOneUploadPerHref ==
    /\ \A h \in UploadedHrefs : Cardinality(UploadsFor(h)) <= 1
    /\ \A h \in UploadedHrefs : (h \in DOMAIN resourceMap) <=> (Cardinality(UploadsFor(h)) = 1)
    /\ \A h \in DOMAIN resourceMap : h \in UploadedHrefs

\* a finished run in which a.html is a reading-order item and a resource, and
\* was uploaded once
C1_Witness ==
    /\ status = 200
    /\ Len(manifest.readingOrder) = 1 /\ manifest.readingOrder[1].href = hA
    /\ Len(manifest.resources) = 1 /\ manifest.resources[1].href = hA
    /\ Cardinality(UploadsFor(hA)) = 1

\* C29: within one run every storage path receives at most one upload: two
\* references that denote the same stored resource (/a.html and a.html both
\* give {base}/a.html) never cause that path to be written twice.
C29_OneUploadPerStoragePath ==
    \A i, j \in 1..Len(uploads) :
        (i < j /\ uploads[i].ok /\ uploads[j].ok) => uploads[i].path # uploads[j].path

FailedReads(p) == {i \in 1..Len(reads) : reads[i].at = p /\ ~reads[i].ok}
FailedUploads(p) == {i \in 1..Len(uploads) : uploads[i].at = p /\ ~uploads[i].ok}

\* the state part of C2
RequiredFailureEndsRequest ==
    \A p \in RequiredPhases :
        (FailedReads(p) # {} \/ FailedUploads(p) # {}) =>
            /\ pc = "done"
            /\ status = 500
            /\ failedAt = p
            /\ GeneratedUploads = {}
            /\ \A i \in FailedReads(p) : i = Len(reads)
            /\ \A i \in FailedUploads(p) : i = Len(uploads)

\* no step removes or alters an upload that was performed
UploadsLeftInPlace ==
    /\ Len(uploads') >= Len(uploads)
    /\ \A i \in 1..Len(uploads) : uploads'[i] = uploads[i]

\* C2: a failed read or upload for a reading-order item, a TOC base href or a
\* resources item ends the request: the walker's error is returned, the
\* handler answers 500, the failed call is the last call of the request, no
\* positions.json, content.json or manifest.json upload is in the log, and
\* the uploads performed before stay as they are.
C2_RequiredFailureIsFatal ==
    /\ []RequiredFailureEndsRequest
    /\ [][UploadsLeftInPlace]_vars

\* the upload for a TOC entry failed after a reading-order resource had been
\* stored; that earlier upload is still in the log
C2_Witness ==
    /\ status = 500
    /\ failedAt = "toc"
    /\ Len(uploads) = 2
    /\ uploads[1].ok /\ uploads[1].at = "readingOrder"
    /\ ~uploads[2].ok /\ uploads[2].at = "toc"

\* the step is an iteration of the links loop in which processResource failed
LinkFailureStep ==
    /\ pc = "links"
    /\ Len(reads') = Len(reads) + 1
    /\ \/ ~reads'[Len(reads')].ok
       \/ Len(uploads') = Len(uploads) + 1 /\ ~uploads'[Len(uploads')].ok

\* C3: when the read or the upload fails for a generic link, the step adds no
\* Resource Map entry, the request does not fail, and the walker goes on with
\* the next generic link, or with the resources collection after the last.
C3_LinkFailureSkipped ==
    [][LinkFailureStep =>
        /\ resourceMap' = resourceMap
        /\ reads'[Len(reads')].href \notin DOMAIN resourceMap'
        /\ status' = 0 /\ failedAt' = "none"
        /\ IF k < Len(manifest.links)
           THEN pc' = "links" /\ k' = k + 1
           ELSE /\ k' = 1
                /\ pc' = IF Len(manifest.resources) > 0 THEN "resources" ELSE "positions"]_vars

\* a successful request in which the first generic link failed, the second
\* generic link and a resource were stored afterwards
C3_Witness ==
    /\ status = 200
    /\ FailedReads("links") \cup FailedUploads("links") # {}
    /\ \E i, j \in ResourceUploads :
          /\ uploads[i].at = "links" /\ uploads[i].ok
          /\ uploads[j].at = "resources" /\ uploads[j].ok
          /\ \A f \in FailedUploads("links") : f < i
    /\ \E r \in 1..Len(reads) : reads[r].at = "links" /\ reads[r].ok
                                /\ \A f \in FailedReads("links") : f < r

\* the walker returned without error: processEPUB is at, or past, the
\* generation of positions.json
WalkerReturned == pc \in {"positions", "content", "manifest"} \/ status = 200

RECURSIVE ForestBaseHrefs(_)
\* base hrefs of the entries of a TOC forest, at every nesting depth
ForestBaseHrefs(forest) ==
    IF forest = <<>> THEN {}
    ELSE {BaseHref(Head(forest).href)}
         \cup ForestBaseHrefs(Head(forest).children)
         \cup ForestBaseHrefs(Tail(forest))

CollectionHrefs(c) == {c[i].href : i \in 1..Len(c)}

\* C4: when the walker has returned without error the Resource Map has an
\* entry for the href of every reading-order item, for the (non-empty) base
\* href of every TOC entry at every nesting depth, and for the href of every
\* resources item.
C4_MapCoversAllReferences ==
    WalkerReturned =>
        /\ CollectionHrefs(manifest.readingOrder) \subseteq DOMAIN resourceMap
        /\ (ForestBaseHrefs(manifest.toc) \ {<<>>}) \subseteq DOMAIN resourceMap
        /\ CollectionHrefs(manifest.resources) \subseteq DOMAIN resourceMap

HasFragment(s) == Index(s, "#") > 0

\* C5: no storage path handed to the uploader for a resource, and no Resource
\* Map key, contains a '#'.
C5_NoFragmentPersisted ==
    /\ \A i \in ResourceUploads : ~HasFragment(uploads[i].path)
    /\ \A h \in DOMAIN resourceMap : ~HasFragment(h)

-----------------------------------------------------------------------------
(* Order of the steps of processEPUB, and repeated attempts.                *)

\* the uploads of the log made at step at
UploadsAt(at) == {i \in 1..Len(uploads) : uploads[i].at = at}

\* the log holds the uploads in the order of the steps: resources of the
\* walker, positions.json, content.json, manifest.json, one upload at most
\* for each generated document
StepsInSequence ==
    /\ \A i \in ResourceUploads, j \in GeneratedUploads : i < j
    /\ \A i \in UploadsAt("positions"), j \in UploadsAt("content") : i < j
    /\ \A i \in UploadsAt("content"), j \in UploadsAt("manifest") : i < j
    /\ \A at \in {"positions", "content", "manifest"} :
          /\ Cardinality(UploadsAt(at)) <= 1
          /\ \A i \in UploadsAt(at) :
                uploads[i].path = basePath \o Slash \o
                    (CASE at = "positions" -> PositionsFile
                       [] at = "content" -> ContentFile
                       [] at = "manifest" -> ManifestFile)
    /\ \A i \in UploadsAt("manifest") : i = Len(uploads)
    /\ GeneratedUploads # {} => pc \in {"content", "manifest", "done"}

\* manifest.json is uploaded only after the walker returned without error
\* and positions.json and content.json were stored
ManifestOnlyAfterSuccess ==
    UploadsAt("manifest") # {} =>
        /\ \A p \in RequiredPhases : FailedReads(p) = {} /\ FailedUploads(p) = {}
        /\ \E i \in UploadsAt("positions") : uploads[i].ok
        /\ \E i \in UploadsAt("content") : uploads[i].ok

\* the request reports success only if manifest.json was stored
SuccessOnlyWithManifest ==
    status = 200 => \E i \in UploadsAt("manifest") : uploads[i].ok

\* a step adds at most one upload, at the end of the log
UploadsAppended ==
    \/ uploads' = uploads
    \/ Len(uploads') = Len(uploads) + 1 /\ SubSeq(uploads', 1, Len(uploads)) = uploads

\* C17: the steps of a request run in sequence: the resource uploads of the
\* walker first, positions.json and content.json after the walker, and
\* manifest.json last; manifest.json is uploaded only if every earlier step
\* succeeded, and success is reported only if its upload succeeded.
C17_StepsInSequence ==
    /\ [](StepsInSequence /\ ManifestOnlyAfterSuccess /\ SuccessOnlyWithManifest)
    /\ [][UploadsAppended]_vars

\* a successful request with a stored resource and the three documents
C17_Witness ==
    /\ status = 200
    /\ Len(uploads) = 4
    /\ uploads[1].kind = "resource" /\ uploads[1].ok
    /\ uploads[2].path = basePath \o Slash \o PositionsFile
    /\ uploads[3].path = basePath \o Slash \o ContentFile
    /\ uploads[4].path = basePath \o Slash \o ManifestFile /\ uploads[4].ok

\* attempt i of the log failed: its read failed, or the upload that followed
AttemptFailed(i) ==
    \/ ~reads[i].ok
    \/ \E u \in ResourceUploads :
          /\ uploads[u].href = reads[i].href
          /\ uploads[u].at = reads[i].at
          /\ uploads[u].item = reads[i].item
          /\ ~uploads[u].ok

\* C18 as stated: once the read or the upload for an href has failed, no
\* second read-and-upload is attempted for that href, also when a later
\* collection references it again.
C18_NoSecondAttempt ==
    \A i, j \in 1..Len(reads) :
        (i < j /\ reads[i].href = reads[j].href) => ~AttemptFailed(i)

\* C18, amended: an item of a collection is attempted once at most; a failed
\* attempt for a reading-order item, a TOC entry or a resources item is the
\* last attempt of the request; after a failed attempt for a generic link
\* the href is attempted again only for a later generic link or a resources
\* item that references it.
C18_OneAttemptPerReference ==
    /\ \A i, j \in 1..Len(reads) :
          i # j => <<reads[i].at, reads[i].item>> # <<reads[j].at, reads[j].item>>
    /\ \A i \in 1..Len(reads) :
          (AttemptFailed(i) /\ reads[i].at \in RequiredPhases) => i = Len(reads)
    /\ \A i, j \in 1..Len(reads) :
          (i < j /\ reads[i].href = reads[j].href /\ AttemptFailed(i)) =>
              /\ reads[i].at = "links"
              /\ reads[j].at \in {"links", "resources"}

\* the stylesheet failed as a generic link and was read again, and stored,
\* as a resources item
C18_Witness ==
    /\ Len(reads) = 2
    /\ reads[1].href = hC /\ reads[1].at = "links" /\ AttemptFailed(1)
    /\ reads[2].href = hC /\ reads[2].at = "resources"
    /\ hC \in DOMAIN resourceMap

-----------------------------------------------------------------------------
(* generatePositionsJSON.                                                   *)
(*                                                                          *)
(* A float64 quotient float64(a)/float64(b) is kept as the exact fraction   *)
(* <<a, b>>; the integers involved are far below 2^53, so the conversion is *)
(* exact and the rounded quotient is monotone in the numerator.             *)

charsPerPosition == 1024

MaxReadingOrder == 3   \* reading-order items given to generatePositionsJSON

ReadFailed == -1       \* stands for resource.Read returning an error

\* byte lengths of the reading-order resources that are tried
CharCounts == {ReadFailed, 0, 500, 1024, 1025, 1500, 3000}

\* variant of numPositionsOf: floor division plus one
numPositionsOffByOne(charCount) == charCount \div charsPerPosition + 1

\* numPositions of pass 1: ceiling division, at least one position
numPositionsOf(charCount) ==
    IF charCount > 0
    THEN LET n == (charCount + charsPerPosition - 1) \div charsPerPosition
         IN IF n = 0 THEN 1 ELSE n
    ELSE 1

\* variant of progressionOf that divides by n
progressionOverN(i, n) == IF n > 1 THEN <<i, n>> ELSE <<0, 1>>

\* progression of the i-th position (i from 0) of a resource with n positions
progressionOf(i, n) == IF n > 1 THEN <<i, n - 1>> ELSE <<0, 1>>

\* variant of charsAtPosition that leaves out the preceding resources
charsAtPositionNoCumulative(cumulative, i, charCount, n) == (i * charCount) \div n

\* charsAtPosition of pass 2
charsAtPosition(cumulative, i, charCount, n) == cumulative + (i * charCount) \div n

\* totalProgression of the i-th position of a resource
totalProgressionOf(cumulative, i, charCount, n, total) ==
    IF total > 0
    THEN LET at == charsAtPosition(cumulative, i, charCount, n)
         IN IF at > total THEN <<1, 1>> ELSE <<at, total>>
    ELSE <<0, 1>>

\* variant of positionOf that restarts at 1 in every resource
positionRestarting(counter, i) == i + 1

\* the "position" value of the i-th entry (i from 0) of the resource being emitted
positionOf(counter, i) == counter + i

\* variant: an item whose read fails is indexed like the others
readFailsNever(charCount) == FALSE

\* publication.Get returned nil or resource.Read returned an error: the loop
\* of pass 1 logs a warning and continues
readFails(charCount) == charCount = ReadFailed

\* one iteration of the first loop: read the item, record its resourceInfo
pass1 ==
    /\ ppc = "pass1"
    /\ LET charCount == readingChars[pi]
           last == pi = Len(readingChars) IN
       /\ IF readFails(charCount)
          THEN UNCHANGED <<resourceInfos, totalChars>>
          ELSE /\ resourceInfos' = Append(resourceInfos,
                      [item |-> pi, charCount |-> charCount,
                       numPositions |-> numPositionsOf(charCount)])
               /\ totalChars' = totalChars + charCount
       /\ IF last
          THEN /\ pi' = 1
               /\ ppc' = IF Len(resourceInfos') > 0 THEN "pass2" ELSE "marshal"
          ELSE /\ pi' = pi + 1
               /\ ppc' = "pass1"
    /\ UNCHANGED <<readingChars, positionCounter, cumulativeChars, positions, positionsTotal>>

\* one iteration of the second loop: all positions of resourceInfos[pi]
pass2 ==
    /\ ppc = "pass2"
    /\ LET info == resourceInfos[pi]
           n == info.numPositions
           entries == [j \in 1..n |->
                         [item |-> info.item,
                          position |-> positionOf(positionCounter, j - 1),
                          progression |-> progressionOf(j - 1, n),
                          totalProgression |->
                              totalProgressionOf(cumulativeChars, j - 1,
                                                 info.charCount, n, totalChars)]] IN
       /\ positions' = positions \o entries
       /\ positionCounter' = positionCounter + n
       /\ cumulativeChars' = cumulativeChars + info.charCount
    /\ IF pi = Len(resourceInfos)
       THEN pi' = 1 /\ ppc' = "marshal"
       ELSE pi' = pi + 1 /\ ppc' = "pass2"
    /\ UNCHANGED <<readingChars, resourceInfos, totalChars, positionsTotal>>

\* positionsData: "total" is len(positions)
marshalPositions ==
    /\ ppc = "marshal"
    /\ positionsTotal' = Len(positions)
    /\ ppc' = "done"
    /\ UNCHANGED <<readingChars, pi, resourceInfos, totalChars, positionCounter,
                   cumulativeChars, positions>>

PInit ==
    /\ readingChars \in SeqsUpTo(CharCounts, MaxReadingOrder)
    /\ ppc = IF Len(readingChars) > 0 THEN "pass1" ELSE "marshal"
    /\ pi = 1
    /\ resourceInfos = <<>>
    /\ totalChars = 0
    /\ positionCounter = 1
    /\ cumulativeChars = 0
    /\ positions = <<>>
    /\ positionsTotal = -1

InitPos == WIdle /\ PInit /\ RIdle /\ SIdle

NextPos ==
    \/ pass1 /\ UNCHANGED <<wvars, rvars, svars>>
    \/ pass2 /\ UNCHANGED <<wvars, rvars, svars>>
    \/ marshalPositions /\ UNCHANGED <<wvars, rvars, svars>>

SpecPos == InitPos /\ [][NextPos]_vars

\* a <= b and a < b for fractions with positive denominators
LeqQ(a, b) == a[1] * b[2] <= b[1] * a[2]
LessQ(a, b) == a[1] * b[2] < b[1] * a[2]

\* the indices, in list order, of the entries of reading-order item it
EntriesOf(it) == {j \in 1..Len(positions) : positions[j].item = it}

\* C6: the position values are 1, 2, ..., N in list order and the document's
\* total is N, also when the read of some reading-order item failed.
C6_PositionsContiguous ==
    /\ \A j \in 1..Len(positions) : positions[j].position = j
    /\ ppc = "done" => positionsTotal = Len(positions)

\* a document over two resources, with a failed read before them
C6_Witness ==
    /\ ppc = "done"
    /\ \E it \in 1..Len(readingChars) : readingChars[it] = ReadFailed
    /\ Len(resourceInfos) >= 2
    /\ positionsTotal >= 3

\* C7: totalProgression is non-decreasing in list order, lies in [0,1], and is
\* 0 for every entry when the total character count is 0.
C7_TotalProgressionMonotone ==
    /\ \A j \in 1..Len(positions) :
          /\ LeqQ(<<0, 1>>, positions[j].totalProgression)
          /\ LeqQ(positions[j].totalProgression, <<1, 1>>)
          /\ positions[j].totalProgression[2] > 0
    /\ \A j \in 1..(Len(positions) - 1) :
          LeqQ(positions[j].totalProgression, positions[j + 1].totalProgression)
    /\ (ppc \in {"pass2", "marshal", "done"} /\ totalChars = 0) =>
          \A j \in 1..Len(positions) : positions[j].totalProgression[1] = 0

\* two resources of several positions each: the value grows inside a resource
\* and across the boundary between the two
C7_Witness ==
    /\ ppc = "done"
    /\ Len(resourceInfos) = 2
    /\ resourceInfos[1].numPositions >= 2 /\ resourceInfos[2].numPositions >= 2
    /\ \E j \in 1..(Len(positions) - 1) :
          /\ positions[j].item # positions[j + 1].item
          /\ LessQ(positions[j].totalProgression, positions[j + 1].totalProgression)

\* ceil(c / 1024), at least 1, stated without the division
IsPositionCount(n, c) ==
    /\ n >= 1
    /\ c > 0 => (n - 1) * charsPerPosition < c /\ c <= n * charsPerPosition
    /\ c = 0 => n = 1

\* C8 as stated: every reading-order item has ceil(charCount/1024) entries, at
\* least one, in the finished position list.
C8_EveryItemHasPositions ==
    ppc = "done" =>
        \A it \in 1..Len(readingChars) :
            /\ Cardinality(EntriesOf(it)) >= 1
            /\ readingChars[it] # ReadFailed =>
                  IsPositionCount(Cardinality(EntriesOf(it)), readingChars[it])

\* C8 amended: every reading-order item whose read succeeds has
\* max(1, ceil(charCount/1024)) entries in the finished position list; an item
\* whose read fails has none.
C8_ReadItemsHavePositions ==
    ppc = "done" =>
        \A it \in 1..Len(readingChars) :
            IF readingChars[it] = ReadFailed
            THEN EntriesOf(it) = {}
            ELSE IsPositionCount(Cardinality(EntriesOf(it)), readingChars[it])

\* an empty resource with one entry, a resource of exactly 1024 bytes with one
\* entry as well
C8_Witness ==
    /\ ppc = "done"
    /\ Len(readingChars) = 2
    /\ readingChars[1] = 0 /\ Cardinality(EntriesOf(1)) = 1
    /\ readingChars[2] = charsPerPosition /\ Cardinality(EntriesOf(2)) = 1

\* C9: the entries of a resource, i = 0..n-1 in list order, have progression
\* i/(n-1) when n > 1 and 0 when n = 1: the first is 0, the last is 1 when
\* n > 1, and the values strictly increase inside the resource.
C9_ProgressionWithinResource ==
    \A r \in 1..Len(resourceInfos) :
        LET E == EntriesOf(resourceInfos[r].item)
            n == Cardinality(E)
            first == CHOOSE j \in E : \A x \in E : j <= x IN
        E # {} =>
            /\ \A j \in E :
                  /\ positions[j].progression[2] > 0
                  /\ IF n > 1
                     THEN positions[j].progression[1] * (n - 1)
                            = (j - first) * positions[j].progression[2]
                     ELSE positions[j].progression[1] = 0
            /\ positions[first].progression[1] = 0
            /\ n > 1 => positions[first + n - 1].progression[1]
                          = positions[first + n - 1].progression[2]
            /\ \A j \in E : (j + 1) \in E =>
                  LessQ(positions[j].progression, positions[j + 1].progression)

\* 500 bytes give one entry at 0; 1500 bytes give two entries at 0 and 1
C9_Witness ==
    /\ ppc = "done"
    /\ readingChars = <<500, 1500>>
    /\ Len(positions) = 3
    /\ positions[1].progression = <<0, 1>>
    /\ positions[2].progression = <<0, 1>>
    /\ positions[3].progression = <<1, 1>>

RECURSIVE CharsRead(_)
\* the characters of the items of rc whose read succeeds
CharsRead(rc) ==
    IF rc = <<>> THEN 0
    ELSE (IF Head(rc) = ReadFailed THEN 0 ELSE Head(rc)) + CharsRead(Tail(rc))

FailedItems == {i \in 1..Len(readingChars) : readingChars[i] = ReadFailed}

\* C26: a reading-order item whose read fails during position computation
\* is not fatal: it contributes no entry and no characters to the totals,
\* every other item is indexed, in reading order, and the positions document
\* is still produced.
C26_ReadFailureNotFatal ==
    /\ (ppc \notin {"idle", "done"}) => ENABLED NextPos
    /\ (ppc = "done" /\ FailedItems # {}) =>
          /\ positionsTotal = Len(positions)
          /\ totalChars = CharsRead(readingChars)
          /\ cumulativeChars = CharsRead(readingChars)
          /\ \A e \in 1..Len(positions) : positions[e].item \notin FailedItems
          /\ \A i \in 1..Len(readingChars) :
                i \notin FailedItems => EntriesOf(i) # {}
          /\ \A e, f \in 1..Len(positions) :
                e < f => positions[e].item <= positions[f].item

\* the second of three items could not be read; the first and the third are
\* indexed with positions 1 and 2..3
C26_Witness ==
    /\ ppc = "done"
    /\ readingChars = <<500, ReadFailed, 1500>>
    /\ positionsTotal = 3
    /\ totalChars = 2000
    /\ positions[1].item = 1
    /\ positions[2].item = 3 /\ positions[3].item = 3

-----------------------------------------------------------------------------
(* rewriteLinksInXHTML.                                                     *)
(*                                                                          *)
(* hrefPattern is (?i)(<a[^>]*\s+href=["'])([^"']+)(["'][^>]*>), matched    *)
(* with Go's leftmost-first semantics. Group 1 ends at the opening quote    *)
(* that follows the last "href=" (preceded by white space, inside the run   *)
(* of non-'>' characters after "<a") for which the rest of the pattern      *)
(* matches; group 2 is the run of non-quote characters up to the next       *)
(* quote; group 3 runs to the first '>' after that quote.                   *)

MaxSegments == 2     \* markup pieces per document

Whitespace == {" ", "\t", "\n", "\f", "\r"}

IsQuote(c) == c \in {"\"", "'"}

\* case folding of (?i) for the letters of the pattern
Lower(c) ==
    CASE c = "A" -> "a"
      [] c = "H" -> "h"
      [] c = "R" -> "r"
      [] c = "E" -> "e"
      [] c = "F" -> "f"
      [] OTHER -> c

HrefEq == <<"h", "r", "e", "f", "=">>

\* d[p..p+4] is "href=", in any case
IsHrefAt(d, p) ==
    /\ p + 4 <= Len(d)
    /\ [j \in 1..5 |-> Lower(d[p + j - 1])] = HrefEq

RECURSIVE FirstGt(_, _)
\* index of the first '>' of d at or after i, Len(d)+1 when there is none
FirstGt(d, i) ==
    IF i > Len(d) THEN Len(d) + 1
    ELSE IF d[i] = ">" THEN i
    ELSE FirstGt(d, i + 1)

RECURSIVE FirstQuote(_, _)
\* index of the first quote of d at or after i, 0 when there is none
FirstQuote(d, i) ==
    IF i > Len(d) THEN 0
    ELSE IF IsQuote(d[i]) THEN i
    ELSE FirstQuote(d, i + 1)

NoMatch == [start |-> 0, valueStart |-> 0, valueEnd |-> 0, end |-> 0]

\* ([^"']+)(["'][^>]*>) matches from the opening quote at p+5
TailMatches(d, p) ==
    LET q == FirstQuote(d, p + 6) IN
    /\ q > p + 6
    /\ FirstGt(d, q + 1) <= Len(d)

\* the start of the pattern: "<a", in any case, whatever follows
tagOpens(d, s) ==
    /\ s + 1 <= Len(d)
    /\ d[s] = "<"
    /\ Lower(d[s + 1]) = "a"

\* the match of hrefPattern that starts at s, NoMatch when there is none
MatchAt(d, s) ==
    IF ~tagOpens(d, s) THEN NoMatch
    ELSE LET g == FirstGt(d, s + 2)
             good == {p \in (s + 3)..(g - 6) :
                         /\ d[p - 1] \in Whitespace
                         /\ IsHrefAt(d, p)
                         /\ IsQuote(d[p + 5])
                         /\ TailMatches(d, p)} IN
         IF good = {} THEN NoMatch
         ELSE LET p == CHOOSE x \in good : \A y \in good : y <= x
                  q == FirstQuote(d, p + 6) IN
              [start |-> s, valueStart |-> p + 6, valueEnd |-> q - 1,
               end |-> FirstGt(d, q + 1)]

RECURSIVE FirstMatchFrom(_, _)
\* the leftmost match at or after position pos
FirstMatchFrom(d, pos) ==
    IF pos > Len(d) THEN NoMatch
    ELSE IF MatchAt(d, pos) # NoMatch THEN MatchAt(d, pos)
    ELSE FirstMatchFrom(d, pos + 1)

MailtoPrefix == <<"m", "a", "i", "l", "t", "o", ":">>
DataPrefix == <<"d", "a", "t", "a", ":">>
HashPrefix == <<"#">>
DotSlash == <<".", "/">>

\* "Skip external URLs, data URIs, mailto, same-page anchors"
isSkipped(hrefValue) ==
    \/ HasPrefix(hrefValue, HttpPrefix)
    \/ HasPrefix(hrefValue, HttpsPrefix)
    \/ HasPrefix(hrefValue, MailtoPrefix)
    \/ HasPrefix(hrefValue, DataPrefix)
    \/ HasPrefix(hrefValue, HashPrefix)

\* variant: only the leading ./ is removed, a leading / stays
normalizeRelativeLinkDotOnly(link) == TrimPrefix(link, DotSlash)

normalizeRelativeLink(link) == TrimPrefix(TrimPrefix(link, DotSlash), Slash)

\* the replacement function handed to ReplaceAllStringFunc, for the match m of d
replaceMatch(d, m) ==
    LET prefix == SubSeq(d, m.start, m.valueStart - 1)
        hrefValue == SubSeq(d, m.valueStart, m.valueEnd)
        suffix == SubSeq(d, m.valueEnd + 1, m.end) IN
    IF isSkipped(hrefValue) THEN SubSeq(d, m.start, m.end)
    ELSE prefix \o normalizeRelativeLink(hrefValue) \o suffix

\* ReplaceAllStringFunc reaches the next match: the text before it is copied,
\* the match is replaced
replaceNextMatch ==
    /\ rpc = "scan"
    /\ LET m == FirstMatchFrom(content, cursor) IN
       /\ m # NoMatch
       /\ modifiedContent' = modifiedContent
                               \o SubSeq(content, cursor, m.start - 1)
                               \o replaceMatch(content, m)
       /\ cursor' = m.end + 1
    /\ UNCHANGED <<rpc, segs, content>>

\* no match is left: the rest of the text is copied and the bytes are returned
copyRemainder ==
    /\ rpc = "scan"
    /\ FirstMatchFrom(content, cursor) = NoMatch
    /\ modifiedContent' = modifiedContent \o SubSeq(content, cursor, Len(content))
    /\ cursor' = Len(content) + 1
    /\ rpc' = "done"
    /\ UNCHANGED <<segs, content>>

\* plain text between tags
segText ==
    [kind |-> "text",
     pre |-> <<"x", " ">>,
     value |-> <<>>,
     post |-> <<>>]

\* anchor to an external http URL
segExternal ==
    [kind |-> "skipped",
     pre |-> <<"<", "a", " ", "h", "r", "e", "f", "=", "\"">>,
     value |-> <<"h", "t", "t", "p", ":", "/", "/", "e">>,
     post |-> <<"\"", ">">>]

\* anchor to an external https URL, single quotes
segSecure ==
    [kind |-> "skipped",
     pre |-> <<"<", "a", " ", "h", "r", "e", "f", "=", "'">>,
     value |-> <<"h", "t", "t", "p", "s", ":", "/", "/", "e">>,
     post |-> <<"'", ">">>]

\* mailto anchor
segMailto ==
    [kind |-> "skipped",
     pre |-> <<"<", "a", " ", "h", "r", "e", "f", "=", "\"">>,
     value |-> <<"m", "a", "i", "l", "t", "o", ":", "m">>,
     post |-> <<"\"", ">">>]

\* data URI anchor
segData ==
    [kind |-> "skipped",
     pre |-> <<"<", "a", " ", "h", "r", "e", "f", "=", "\"">>,
     value |-> <<"d", "a", "t", "a", ":", ",", "d">>,
     post |-> <<"\"", ">">>]

\* same-document anchor
segFragment ==
    [kind |-> "skipped",
     pre |-> <<"<", "a", " ", "i", "d", "=", "\"", "i", "\"", " ", "h", "r", "e",
              "f", "=", "\"">>,
     value |-> <<"#", "t">>,
     post |-> <<"\"", ">">>]

\* internal anchor with a leading ./
segDotSlash ==
    [kind |-> "internal",
     pre |-> <<"<", "a", " ", "h", "r", "e", "f", "=", "\"">>,
     value |-> <<".", "/", "c", ".", "h", "t", "m", "l">>,
     post |-> <<"\"", ">">>]

\* internal anchor with a leading /, upper-case markup, attributes around
segRooted ==
    [kind |-> "internal",
     pre |-> <<"<", "A", " ", "C", "L", "A", "S", "S", "=", "\"", "k", "\"", "\n",
              " ", "H", "R", "E", "F", "=", "\"">>,
     value |-> <<"/", "c", ".", "h", "t", "m", "l", "#", "s">>,
     post |-> <<"\"", " ", "i", "d", "=", "\"", "i", "\"", ">">>]

\* internal anchor that is already relative
segRelative ==
    [kind |-> "internal",
     pre |-> <<"<", "a", " ", "h", "r", "e", "f", "=", "\"">>,
     value |-> <<"c", ".", "h", "t", "m", "l">>,
     post |-> <<"\"", ">">>]

\* image-map area, not an anchor
segArea ==
    [kind |-> "other",
     pre |-> <<"<", "a", "r", "e", "a", " ", "h", "r", "e", "f", "=", "\"">>,
     value |-> <<"/", "c", ".", "h", "t", "m", "l">>,
     post |-> <<"\"", ">">>]

\* stylesheet link, not an anchor
segLinkTag ==
    [kind |-> "other",
     pre |-> <<"<", "l", "i", "n", "k", " ", "h", "r", "e", "f", "=", "\"">>,
     value |-> <<"/", "s", ".", "c", "s", "s">>,
     post |-> <<"\"", ">">>]

\* external anchor whose title attribute quotes an href
segTitled ==
    [kind |-> "skipped",
     pre |-> <<"<", "a", " ", "h", "r", "e", "f", "=", "\"">>,
     value |-> <<"h", "t", "t", "p", ":", "/", "/", "e">>,
     post |-> <<"\"", " ", "t", "i", "t", "l", "e", "=", "\"", "s", "e", "e", " ",
               "h", "r", "e", "f", "=", "'", "/", "y", "'", "\"", ">">>]

\* internal anchor that climbs to the parent directory
segParent ==
    [kind |-> "internal",
     pre |-> <<"<", "a", " ", "h", "r", "e", "f", "=", "\"">>,
     value |-> <<".", ".", "/", "d", ".", "h", "t", "m", "l">>,
     post |-> <<"\"", ">">>]

\* anchor whose href is a network-path reference, not among the skipped
\* prefixes
segNetworkPath ==
    [kind |-> "internal",
     pre |-> <<"<", "a", " ", "h", "r", "e", "f", "=", "\"">>,
     value |-> <<"/", "/", "e", ".", "o", "r", "g", "/", "x">>,
     post |-> <<"\"", ">">>]

Segments ==
    {segText, segExternal, segSecure, segMailto,
     segData, segFragment, segDotSlash, segRooted,
     segRelative, segArea, segLinkTag, segTitled, segParent, segNetworkPath}

SegmentText(seg) == seg.pre \o seg.value \o seg.post

RECURSIVE Concat(_)
Concat(ss) == IF ss = <<>> THEN <<>> ELSE SegmentText(Head(ss)) \o Concat(Tail(ss))

RInit ==
    /\ segs \in SeqsUpTo(Segments, MaxSegments)
    /\ content = Concat(segs)
    /\ modifiedContent = <<>>
    /\ cursor = 1
    /\ rpc = "scan"

InitRewrite == WIdle /\ PIdle /\ RInit /\ SIdle

NextRewrite ==
    \/ replaceNextMatch /\ UNCHANGED <<wvars, pvars, svars>>
    \/ copyRemainder /\ UNCHANGED <<wvars, pvars, svars>>

SpecRewrite == InitRewrite /\ [][NextRewrite]_vars

RECURSIVE OnlyInternalValuesChanged(_, _)
\* out is the text of the pieces ss with nothing changed but, possibly, the
\* href values of the internal relative anchors among them
OnlyInternalValuesChanged(out, ss) ==
    IF ss = <<>> THEN out = <<>>
    ELSE LET seg == Head(ss) IN
         IF seg.kind = "internal"
         THEN /\ HasPrefix(out, seg.pre)
              /\ \E n \in 0..(Len(out) - Len(seg.pre)) :
                    LET rest == SubSeq(out, Len(seg.pre) + n + 1, Len(out)) IN
                    /\ HasPrefix(rest, seg.post)
                    /\ OnlyInternalValuesChanged(TrimPrefix(rest, seg.post), Tail(ss))
         ELSE /\ HasPrefix(out, SegmentText(seg))
              /\ OnlyInternalValuesChanged(TrimPrefix(out, SegmentText(seg)), Tail(ss))

\* C10: the rewritten document equals the input except, possibly, inside the
\* href values of internal relative anchors: anchors whose href begins with
\* http://, https://, mailto:, data: or # are byte-identical, and so is all
\* content that is not an anchor href value.
C10_OnlyInternalAnchorsChange ==
    rpc = "done" => OnlyInternalValuesChanged(modifiedContent, segs)

\* the href value with one leading ./ removed and then one leading / removed
StrippedValue(v) ==
    LET a == IF Len(v) >= 2 /\ v[1] = "." /\ v[2] = "/"
             THEN SubSeq(v, 3, Len(v)) ELSE v IN
    IF Len(a) >= 1 /\ a[1] = "/" THEN SubSeq(a, 2, Len(a)) ELSE a

RECURSIVE InternalValuesStripped(_, _)
\* out is made of one piece per piece of ss, in order, and the piece of every
\* internal relative anchor is its markup with the stripped value in place of
\* the value: the text before and after the value is kept character by
\* character, nothing is put in front of the value
InternalValuesStripped(out, ss) ==
    IF ss = <<>> THEN out = <<>>
    ELSE LET seg == Head(ss) IN
         IF seg.kind = "internal"
         THEN LET piece == seg.pre \o StrippedValue(seg.value) \o seg.post IN
              /\ HasPrefix(out, piece)
              /\ InternalValuesStripped(TrimPrefix(out, piece), Tail(ss))
         ELSE \E n \in 0..Len(SegmentText(seg)) :
                 /\ n <= Len(out)
                 /\ InternalValuesStripped(SubSeq(out, n + 1, Len(out)), Tail(ss))

RECURSIVE rewriteFrom(_, _)
\* the text ReplaceAllStringFunc returns for d from position pos on
rewriteFrom(d, pos) ==
    LET m == FirstMatchFrom(d, pos) IN
    IF m = NoMatch THEN SubSeq(d, pos, Len(d))
    ELSE SubSeq(d, pos, m.start - 1) \o replaceMatch(d, m) \o rewriteFrom(d, m.end + 1)

\* the whole function applied to the document d
rewriteLinksInXHTML(d) == rewriteFrom(d, 1)

\* C28: link normalization is idempotent: normalizing a normalized internal
\* href value gives the same value, a rewritten internal href never starts
\* with / or ./, and rewriting an already rewritten document changes nothing.
C28_NormalizationIdempotent ==
    rpc = "done" =>
        /\ \A i \in 1..Len(segs) :
              segs[i].kind = "internal" =>
                  LET v == normalizeRelativeLink(segs[i].value) IN
                  /\ normalizeRelativeLink(v) = v
                  /\ ~HasPrefix(v, Slash)
                  /\ ~HasPrefix(v, DotSlash)
        /\ rewriteLinksInXHTML(modifiedContent) = modifiedContent

-----------------------------------------------------------------------------
(* generateManifestWithSupabaseURLs: the manifest synthesizer.              *)

MaxManifestLinks == 2   \* items of manifest.Links handed to the synthesizer

UpperCase == <<"A", "B", "C", "D", "E", "F", "G", "H", "I", "J", "K", "L",
               "M", "N", "O", "P", "Q", "R", "S", "T", "U", "V", "W", "X",
               "Y", "Z">>
LowerCase == <<"a", "b", "c", "d", "e", "f", "g", "h", "i", "j", "k", "l",
               "m", "n", "o", "p", "q", "r", "s", "t", "u", "v", "w", "x",
               "y", "z">>

\* strings.ToLower, on the ASCII letters
ToLower(s) ==
    [i \in 1..Len(s) |->
        IF \E j \in 1..Len(UpperCase) : UpperCase[j] = s[i]
        THEN LowerCase[CHOOSE j \in 1..Len(UpperCase) : UpperCase[j] = s[i]]
        ELSE s[i]]

\* strings.Contains
Contains(s, substr) ==
    \E i \in 1..(Len(s) - Len(substr) + 1) : SubSeq(s, i, i + Len(substr) - 1) = substr

\* a manifest.Link as the synthesizer reads it; title <<>> is the empty
\* string, type "" a nil MediaType
MLink(h, title, rels, t) ==
    [href |-> h, title |-> title, rels |-> rels, type |-> t, children |-> <<>>]

tTableOfContents == <<"T", "a", "b", "l", "e", " ", "o", "f", " ", "C", "o",
                      "n", "t", "e", "n", "t", "s">>
tBeginReading == <<"B", "e", "g", "i", "n", " ", "R", "e", "a", "d", "i",
                   "n", "g">>
tCopyrightPage == <<"C", "o", "p", "y", "r", "i", "g", "h", "t", " ", "P",
                    "a", "g", "e">>
tContentsUpper == <<"C", "O", "N", "T", "E", "N", "T", "S">>
tStartHere == <<"S", "t", "a", "r", "t", " ", "H", "e", "r", "e">>
tCopyright == <<"C", "o", "p", "y", "r", "i", "g", "h", "t">>
tChapter == <<"C", "h", "a", "p", "t", "e", "r", " ", "1">>

hTocXhtml == <<"t", "o", "c", ".", "x", "h", "t", "m", "l">>
hTocNcx == <<"/", "t", "o", "c", ".", "n", "c", "x">>
hCover == <<"c", "o", "v", "e", "r", ".", "j", "p", "g">>
hSlashC == <<"/", "c", ".", "c", "s", "s">>

SynReadingOrders ==
    {<<>>,
     <<MLink(hA, <<>>, <<>>, XhtmlType)>>,
     <<MLink(hSlashA, tChapter, <<>>, ""), MLink(hN, <<>>, <<>>, XhtmlType)>>}

tocContents == MLink(hAFrag, tContentsUpper, <<>>, "")
tocStart == MLink(hA, tStartHere, <<>>, "")
tocCopyright == MLink(hSlashA, tCopyright, <<>>, "")
tocStartOfContents ==
    MLink(hN, <<"S", "t", "a", "r", "t", " ", "o", "f", " ", "c", "o", "n", "t", "e",
                "n", "t", "s">>, <<>>, "")
tocChapter ==
    [href |-> hN, title |-> tChapter, rels |-> <<>>, type |-> "",
     children |-> <<MLink(hA, tContentsUpper, <<>>, "")>>]

SynTocs ==
    {<<>>,
     <<tocChapter>>,
     <<tocContents>>,
     <<tocContents, tocContents>>,
     <<tocContents, tocStart>>,
     <<tocChapter, tocCopyright>>,
     <<tocStartOfContents>>}

linkContents == MLink(hTocXhtml, <<>>, <<"contents">>, XhtmlType)
linkTitled == MLink(hA, tTableOfContents, <<>>, XhtmlType)
linkLicense == MLink(hExternal, <<>>, <<"license">>, "")
linkStyles == MLink(hSlashC, <<>>, <<"stylesheet", "alternate">>, "text/css")
linkPlain == MLink(hTilde, tChapter, <<>>, "")

SynLinksPool == {linkContents, linkTitled, linkLicense, linkStyles, linkPlain}

resToc == MLink(hTocXhtml, <<>>, <<>>, XhtmlType)
resTocNav == MLink(hTocXhtml, <<>>, <<"nav">>, XhtmlType)
resNcx == MLink(hTocNcx, <<>>, <<"contents", "nav">>, "application/x-dtbncx+xml")
resCover == MLink(hCover, <<>>, <<"cover">>, "image/jpeg")
resCoverPlain == MLink(hCover, <<>>, <<>>, "")

SynResources ==
    {<<>>,
     <<resToc>>,
     <<resToc, resCoverPlain>>,
     <<resTocNav>>,
     <<resNcx, resCover>>,
     <<resCoverPlain>>}

SynManifests ==
    {[readingOrder |-> ro, toc |-> toc, links |-> ls, resources |-> rs] :
        ro \in SynReadingOrders, toc \in SynTocs,
        ls \in SeqsUpTo(SynLinksPool, MaxManifestLinks), rs \in SynResources}

\* the value stored under "rel": nothing, one string, or a list of strings
RelAbsent == [form |-> "absent", values |-> <<>>]
RelString(r) == [form |-> "string", values |-> <<r>>]
RelList(rs) == [form |-> "list", values |-> rs]

\* "if len(link.Rels) == 1 { item["rel"] = link.Rels[0] } else { item["rel"] = link.Rels }"
relOfRels(rels) == IF Len(rels) = 1 THEN RelString(rels[1]) ELSE RelList(rels)

manifestURL == publicURL(basePath \o Slash \o ManifestFile)

\* an item of the emitted readingOrder
readingOrderItem(link) ==
    [href |-> TrimPrefix(link.href, Slash), type |-> link.type, title |-> link.title]

RECURSIVE convertTOCLink(_)
convertTOCLink(link) ==
    [href |-> TrimPrefix(link.href, Slash),
     title |-> link.title,
     children |-> [i \in 1..Len(link.children) |-> convertTOCLink(link.children[i])]]

landmarkRels == {"contents", "start", "copyright"}

hasLandmarkRel(link) == \E i \in 1..Len(link.rels) : link.rels[i] \in landmarkRels

\* isLandmark of the first loop over manifest.Links
isLandmarkLink(link) ==
    \/ hasLandmarkRel(link)
    \/ link.title \in {tTableOfContents, tBeginReading, tCopyrightPage}

landmarkItem(hrefStr, title) == [href |-> TrimPrefix(hrefStr, Slash), title |-> title]

RECURSIVE landmarksOfLinks(_, _, _)
\* the first loop, from item i on, with lm and seen the landmarks and
\* landmarkHrefs built so far
landmarksOfLinks(ls, i, acc) ==
    IF i > Len(ls) THEN acc
    ELSE IF isLandmarkLink(ls[i])
    THEN landmarksOfLinks(ls, i + 1,
            [lm |-> Append(acc.lm, landmarkItem(ls[i].href, ls[i].title)),
             seen |-> acc.seen \cup {ls[i].href}])
    ELSE landmarksOfLinks(ls, i + 1, acc)

\* variant: the "Begin Reading" group is tested before the others
tocLandmarkTitleStartFirst(linkTitle) ==
    LET title == ToLower(linkTitle) IN
    IF Contains(title, <<"s", "t", "a", "r", "t">>)
    THEN [isLandmark |-> TRUE, landmarkTitle |-> tBeginReading]
    ELSE IF Contains(title, <<"c", "o", "n", "t", "e", "n", "t", "s">>)
    THEN [isLandmark |-> TRUE, landmarkTitle |-> tTableOfContents]
    ELSE IF Contains(title, <<"c", "o", "p", "y", "r", "i", "g", "h", "t">>)
    THEN [isLandmark |-> TRUE, landmarkTitle |-> tCopyrightPage]
    ELSE [isLandmark |-> FALSE, landmarkTitle |-> <<>>]

\* the title test of the loop over manifest.TableOfContents
tocLandmarkTitle(linkTitle) ==
    LET title == ToLower(linkTitle) IN
    IF \/ Contains(title, <<"t", "a", "b", "l", "e", " ", "o", "f", " ", "c",
                            "o", "n", "t", "e", "n", "t", "s">>)
       \/ Contains(title, <<"c", "o", "n", "t", "e", "n", "t", "s">>)
       \/ Contains(title, <<"t", "o", "c">>)
    THEN [isLandmark |-> TRUE, landmarkTitle |-> tTableOfContents]
    ELSE IF Contains(title, <<"b", "e", "g", "i", "n", " ", "r", "e", "a",
                              "d", "i", "n", "g">>) \/ Contains(title, <<"s",
                                                                         "t",
                                                                         "a",
                                                                         "r",
                                                                         "t">>)
    THEN [isLandmark |-> TRUE, landmarkTitle |-> tBeginReading]
    ELSE IF Contains(title, <<"c", "o", "p", "y", "r", "i", "g", "h", "t">>)
    THEN [isLandmark |-> TRUE, landmarkTitle |-> tCopyrightPage]
    ELSE [isLandmark |-> FALSE, landmarkTitle |-> <<>>]

RECURSIVE landmarksOfTOC(_, _, _)
landmarksOfTOC(toc, i, acc) ==
    IF i > Len(toc) THEN acc
    ELSE IF toc[i].href \in acc.seen THEN landmarksOfTOC(toc, i + 1, acc)
    ELSE LET t == tocLandmarkTitle(toc[i].title) IN
         IF t.isLandmark
         THEN landmarksOfTOC(toc, i + 1,
                 [lm |-> Append(acc.lm, landmarkItem(toc[i].href, t.landmarkTitle)),
                  seen |-> acc.seen \cup {toc[i].href}])
         ELSE landmarksOfTOC(toc, i + 1, acc)

\* variant: the fallback landmark points at the last reading-order item
fallbackLandmarkLast(ro) == landmarkItem(ro[Len(ro)].href, tBeginReading)

\* "first item = Begin Reading"
fallbackLandmark(ro) == landmarkItem(ro[1].href, tBeginReading)

\* variant: the self link comes after the two Readium links
requiredLinksSelfLast(url) ==
    <<[href |-> ContentFile, rel |-> RelAbsent,
       type |-> "application/vnd.readium.content+json"],
      [href |-> PositionsFile, rel |-> RelAbsent,
       type |-> "application/vnd.readium.position-list+json"],
      [href |-> url, rel |-> RelString("self"), type |-> "application/webpub+json"]>>

\* the three links appended before manifest.Links is looked at
requiredLinks(url) ==
    <<[href |-> url, rel |-> RelString("self"), type |-> "application/webpub+json"],
      [href |-> ContentFile, rel |-> RelAbsent,
       type |-> "application/vnd.readium.content+json"],
      [href |-> PositionsFile, rel |-> RelAbsent,
       type |-> "application/vnd.readium.position-list+json"]>>

\* an item of the second loop over manifest.Links
genericLinkItem(link) ==
    [href |-> IF /\ ~HasPrefix(link.href, HttpPrefix)
                 /\ ~HasPrefix(link.href, HttpsPrefix)
                 /\ ~HasPrefix(link.href, TildePrefix)
              THEN TrimPrefix(link.href, Slash) ELSE link.href,
     rel |-> IF Len(link.rels) > 0 THEN relOfRels(link.rels) ELSE RelAbsent,
     type |-> link.type]

RECURSIVE genericLinks(_, _)
genericLinks(ls, i) ==
    IF i > Len(ls) THEN <<>>
    ELSE IF hasLandmarkRel(ls[i]) THEN genericLinks(ls, i + 1)
    ELSE <<genericLinkItem(ls[i])>> \o genericLinks(ls, i + 1)

\* an item of the emitted resources
resourceItem(link) ==
    LET tocRel == IF \/ Contains(link.href, <<"t", "o", "c", ".", "x", "h",
                                              "t", "m", "l">>)
                     \/ Contains(link.href, <<"t", "o", "c", ".", "n", "c",
                                              "x">>)
                  THEN RelString("contents") ELSE RelAbsent IN
    [href |-> TrimPrefix(link.href, Slash),
     type |-> link.type,
     rel |-> IF Len(link.rels) > 0 THEN relOfRels(link.rels) ELSE tocRel]

\* lines 822-846: @context, metadata and the reading order
emitReadingOrder ==
    /\ mpc = "readingOrder"
    /\ updatedManifest' =
          updatedManifest @@
          ("readingOrder" :> [i \in 1..Len(srcManifest.readingOrder) |->
                                 readingOrderItem(srcManifest.readingOrder[i])])
    /\ mpc' = "toc"
    /\ UNCHANGED <<srcManifest, landmarks, landmarkHrefs>>

\* lines 848-858: "toc" is set when the table of contents is not empty
emitTOC ==
    /\ mpc = "toc"
    /\ updatedManifest' =
          IF Len(srcManifest.toc) > 0
          THEN updatedManifest @@
               ("toc" :> [i \in 1..Len(srcManifest.toc) |->
                             convertTOCLink(srcManifest.toc[i])])
          ELSE updatedManifest
    /\ mpc' = "landmarkLinks"
    /\ UNCHANGED <<srcManifest, landmarks, landmarkHrefs>>

\* lines 870-900: landmarks taken from manifest.Links
landmarksFromLinks ==
    /\ mpc = "landmarkLinks"
    /\ LET r == landmarksOfLinks(srcManifest.links, 1,
                                 [lm |-> landmarks, seen |-> landmarkHrefs]) IN
       /\ landmarks' = r.lm
       /\ landmarkHrefs' = r.seen
    /\ mpc' = "landmarkTOC"
    /\ UNCHANGED <<srcManifest, updatedManifest>>

\* lines 902-943: landmarks taken from the top level of the table of contents
landmarksFromTOC ==
    /\ mpc = "landmarkTOC"
    /\ LET r == landmarksOfTOC(srcManifest.toc, 1,
                               [lm |-> landmarks, seen |-> landmarkHrefs]) IN
       /\ landmarks' = r.lm
       /\ landmarkHrefs' = r.seen
    /\ mpc' = "landmarkFallback"
    /\ UNCHANGED <<srcManifest, updatedManifest>>

\* lines 945-960: the reading-order fallback, then "landmarks" is set when
\* the slice is not empty
emitLandmarks ==
    /\ mpc = "landmarkFallback"
    /\ LET lm == IF Len(landmarks) = 0 /\ Len(srcManifest.readingOrder) > 0
                 THEN <<fallbackLandmark(srcManifest.readingOrder)>>
                 ELSE landmarks IN
       /\ landmarks' = lm
       /\ updatedManifest' = IF Len(lm) > 0
                             THEN updatedManifest @@ ("landmarks" :> lm)
                             ELSE updatedManifest
    /\ mpc' = "links"
    /\ UNCHANGED <<srcManifest, landmarkHrefs>>

\* lines 962-1028: the links array
emitLinks ==
    /\ mpc = "links"
    /\ updatedManifest' =
          updatedManifest @@
          ("links" :> requiredLinks(manifestURL) \o genericLinks(srcManifest.links, 1))
    /\ mpc' = "resources"
    /\ UNCHANGED <<srcManifest, landmarks, landmarkHrefs>>

\* lines 1030-1075: the resources, then the manifest is marshalled
emitResources ==
    /\ mpc = "resources"
    /\ updatedManifest' =
          IF Len(srcManifest.resources) > 0
          THEN updatedManifest @@
               ("resources" :> [i \in 1..Len(srcManifest.resources) |->
                                   resourceItem(srcManifest.resources[i])])
          ELSE updatedManifest
    /\ mpc' = "done"
    /\ UNCHANGED <<srcManifest, landmarks, landmarkHrefs>>

MInit ==
    /\ srcManifest \in SynManifests
    /\ mpc = "readingOrder"
    /\ updatedManifest = [context |-> "https://readium.org/webpub-manifest/context.jsonld"]
    /\ landmarks = <<>>
    /\ landmarkHrefs = {}

InitManifest == WIdle /\ PIdle /\ RIdle /\ MInit /\ TIdle /\ HIdle /\ CIdle /\ BIdle

NextManifest ==
    \/ emitReadingOrder /\ UNCHANGED <<wvars, pvars, rvars, tvars, hvars, cvars, bvars>>
    \/ emitTOC /\ UNCHANGED <<wvars, pvars, rvars, tvars, hvars, cvars, bvars>>
    \/ landmarksFromLinks /\ UNCHANGED <<wvars, pvars, rvars, tvars, hvars, cvars, bvars>>
    \/ landmarksFromTOC /\ UNCHANGED <<wvars, pvars, rvars, tvars, hvars, cvars, bvars>>
    \/ emitLandmarks /\ UNCHANGED <<wvars, pvars, rvars, tvars, hvars, cvars, bvars>>
    \/ emitLinks /\ UNCHANGED <<wvars, pvars, rvars, tvars, hvars, cvars, bvars>>
    \/ emitResources /\ UNCHANGED <<wvars, pvars, rvars, tvars, hvars, cvars, bvars>>

SpecManifest == InitManifest /\ [][NextManifest]_vars

MatchesNoLandmarkPattern(title) ==
    LET t == ToLower(title) IN
    \A p \in {<<"t", "a", "b", "l", "e", " ", "o", "f", " ", "c", "o", "n",
                "t", "e", "n", "t", "s">>, <<"c", "o", "n", "t", "e", "n",
                                             "t", "s">>, <<"t", "o", "c">>,
              <<"b", "e", "g", "i", "n", " ", "r", "e", "a", "d", "i", "n",
                "g">>, <<"s", "t", "a", "r", "t">>, <<"c", "o", "p", "y",
                                                      "r", "i", "g", "h", "t">>} : ~Contains(t, p)

\* C12: with empty links, a table of contents that is empty or whose titles
\* match no landmark pattern, and a non-empty reading order, the manifest has
\* exactly one landmark, titled "Begin Reading", whose href is the href the
\* manifest gives its first reading-order item.
C12_LandmarkFallback ==
    (/\ mpc = "done"
     /\ srcManifest.links = <<>>
     /\ \A i \in 1..Len(srcManifest.toc) :
           MatchesNoLandmarkPattern(srcManifest.toc[i].title)
     /\ srcManifest.readingOrder # <<>>)
    => /\ "landmarks" \in DOMAIN updatedManifest
       /\ Len(updatedManifest.landmarks) = 1
       /\ updatedManifest.landmarks[1].title = tBeginReading
       /\ updatedManifest.landmarks[1].href = updatedManifest.readingOrder[1].href
       /\ updatedManifest.landmarks[1].href
             = TrimPrefix(srcManifest.readingOrder[1].href, Slash)

\* a manifest with an unmatched TOC title and two reading-order items, the
\* first with a rooted href, got its fallback landmark
C12_Witness ==
    /\ mpc = "done"
    /\ srcManifest.links = <<>>
    /\ srcManifest.toc = <<tocChapter>>
    /\ Len(srcManifest.readingOrder) = 2
    /\ srcManifest.readingOrder[1].href = hSlashA
    /\ updatedManifest.landmarks = <<[href |-> hA, title |-> tBeginReading]>>

\* C13: the landmarks of the manifest never hold two entries with the same
\* base href (the href up to its fragment), whether they come from the
\* links, from the table of contents or from both.
C13_LandmarksUniqueByBaseHref ==
    "landmarks" \in DOMAIN updatedManifest =>
        \A i, j \in 1..Len(updatedManifest.landmarks) :
            i # j => BaseHref(updatedManifest.landmarks[i].href)
                       # BaseHref(updatedManifest.landmarks[j].href)

\* C14: links is always present and begins with the self link (absolute URL
\* of the manifest, application/webpub+json), then readium/content.json,
\* then readium/positions.json, whatever the source links are.
C14_RequiredLinksFirst ==
    mpc = "done" =>
        /\ "links" \in DOMAIN updatedManifest
        /\ Len(updatedManifest.links) >= 3
        /\ updatedManifest.links[1] =
              [href |-> publicURL(basePath \o <<"/", "m", "a", "n", "i", "f",
                                                "e", "s", "t", ".", "j", "s",
                                                "o", "n">>),
               rel |-> RelString("self"),
               type |-> "application/webpub+json"]
        /\ updatedManifest.links[2] =
              [href |-> <<"r", "e", "a", "d", "i", "u", "m", "/", "c", "o",
                          "n", "t", "e", "n", "t", ".", "j", "s", "o", "n">>,
               rel |-> RelAbsent,
               type |-> "application/vnd.readium.content+json"]
        /\ updatedManifest.links[3] =
              [href |-> <<"r", "e", "a", "d", "i", "u", "m", "/", "p", "o",
                          "s", "i", "t", "i", "o", "n", "s", ".", "j", "s",
                          "o", "n">>,
               rel |-> RelAbsent,
               type |-> "application/vnd.readium.position-list+json"]

\* a manifest with a landmark link and a license link has been synthesized:
\* the three fixed links are followed by the license link
C14_Witness ==
    /\ mpc = "done"
    /\ srcManifest.links = <<linkContents, linkLicense>>
    /\ Len(updatedManifest.links) = 4
    /\ updatedManifest.links[1].rel = RelString("self")
    /\ updatedManifest.links[4].href = hExternal

\* the href a generic link is emitted with: external http(s) hrefs as they
\* are, the others without their leading slash
EmittedLinkHref(h) ==
    IF HasPrefix(h, HttpPrefix) \/ HasPrefix(h, HttpsPrefix) THEN h
    ELSE TrimPrefix(h, Slash)

\* the generic links that became landmarks, by rel or by title
NotALandmark(link) == ~isLandmarkLink(link)

\* C15: after the three fixed links, links holds exactly the generic links
\* that were not emitted as landmarks (by rel or by title), in source order,
\* external hrefs unchanged and internal hrefs relativized.
C15_LinksAreTheNonLandmarks ==
    mpc = "done" =>
        LET rest == SubSeq(updatedManifest.links, 4, Len(updatedManifest.links))
            expected == SelectSeq(srcManifest.links, NotALandmark) IN
        /\ Len(rest) = Len(expected)
        /\ \A i \in 1..Len(rest) : rest[i].href = EmittedLinkHref(expected[i].href)

TocNamed(h) == Contains(h, <<"t", "o", "c", ".", "x", "h", "t", "m", "l">>) \/ Contains(h, <<
                                                                                             "t",
                                                                                             "o",
                                                                                             "c",
                                                                                             ".",
                                                                                             "n",
                                                                                             "c",
                                                                                             "x">>)

\* C16: every emitted resource carries its pre-existing rel values, merged
\* with contents when its href is TOC-named: a TOC-named resource always
\* carries contents, another resource only when it had it before.
C16_ResourceRelsMerged ==
    mpc = "done" =>
        \A i \in 1..Len(srcManifest.resources) :
            LET before == {srcManifest.resources[i].rels[n] :
                              n \in 1..Len(srcManifest.resources[i].rels)}
                emitted == updatedManifest.resources[i].rel.values IN
            {emitted[n] : n \in 1..Len(emitted)}
               = before \cup (IF TocNamed(srcManifest.resources[i].href)
                              THEN {"contents"} ELSE {})

\* the groups of title patterns, in the order they are tried, with the label
\* each gives
LandmarkGroups ==
    <<[label |-> <<"T", "a", "b", "l", "e", " ", "o", "f", " ", "C", "o",
                   "n", "t", "e", "n", "t", "s">>,
       patterns |-> {<<"t", "a", "b", "l", "e", " ", "o", "f", " ", "c", "o",
                       "n", "t", "e", "n", "t", "s">>, <<"c", "o", "n", "t",
                                                         "e", "n", "t", "s">>, <<
                                                                                 "t",
                                                                                 "o",
                                                                                 "c">>}],
      [label |-> <<"B", "e", "g", "i", "n", " ", "R", "e", "a", "d", "i",
                   "n", "g">>,
       patterns |-> {<<"b", "e", "g", "i", "n", " ", "r", "e", "a", "d", "i",
                       "n", "g">>, <<"s", "t", "a", "r", "t">>}],
      [label |-> <<"C", "o", "p", "y", "r", "i", "g", "h", "t", " ", "P",
                   "a", "g", "e">>,
       patterns |-> {<<"c", "o", "p", "y", "r", "i", "g", "h", "t">>}]>>

GroupMatches(g, title) == \E p \in LandmarkGroups[g].patterns : Contains(ToLower(title), p)

\* the label of the first group the title matches, <<>> when it matches none
FirstGroupLabel(title) ==
    IF \E g \in 1..3 : GroupMatches(g, title)
    THEN LandmarkGroups[CHOOSE g \in 1..3 :
                           /\ GroupMatches(g, title)
                           /\ \A h \in 1..(g - 1) : ~GroupMatches(h, title)].label
    ELSE <<>>

\* the landmarks the generic links give: one per link with a landmark rel or
\* an exact landmark title, in source order
LinkLandmarks ==
    LET taken == SelectSeq(srcManifest.links, isLandmarkLink) IN
    [i \in 1..Len(taken) |->
        [href |-> TrimPrefix(taken[i].href, Slash), title |-> taken[i].title]]

\* TOC entry i is not already taken and its title matches a group
TocEntryIsLandmark(i) ==
    LET toc == srcManifest.toc IN
    /\ FirstGroupLabel(toc[i].title) # <<>>
    /\ \A n \in 1..Len(srcManifest.links) :
          isLandmarkLink(srcManifest.links[n]) => srcManifest.links[n].href # toc[i].href
    /\ \A j \in 1..(i - 1) :
          toc[j].href = toc[i].href => FirstGroupLabel(toc[j].title) = <<>>

RECURSIVE TocLandmarksFrom(_)
TocLandmarksFrom(i) ==
    IF i > Len(srcManifest.toc) THEN <<>>
    ELSE (IF TocEntryIsLandmark(i)
          THEN <<[href |-> TrimPrefix(srcManifest.toc[i].href, Slash),
                  title |-> FirstGroupLabel(srcManifest.toc[i].title)]>>
          ELSE <<>>) \o TocLandmarksFrom(i + 1)

-----------------------------------------------------------------------------
(* getContentType.                                                          *)

\* a Content-Type value: the media type and what follows "; "
ContentType(t, params) == [type |-> t, params |-> params]

RECURSIVE ExtFrom(_, _)
\* filepath.Ext: the suffix beginning at the final dot in the final element
\* of path, empty when that element has no dot
ExtFrom(p, i) ==
    IF i < 1 \/ p[i] = "/" THEN <<>>
    ELSE IF p[i] = "." THEN SubSeq(p, i, Len(p))
    ELSE ExtFrom(p, i - 1)

Ext(p) == ExtFrom(p, Len(p))

getContentType(p) ==
    LET pathLower == ToLower(p)
        ext == ToLower(Ext(p)) IN
    IF HasSuffix(pathLower, <<"m", "a", "n", "i", "f", "e", "s", "t", ".",
                              "j", "s", "o", "n">>)
    THEN ContentType("application/webpub+json", "charset=utf-8")
    ELSE IF HasSuffix(pathLower, <<"c", "o", "n", "t", "e", "n", "t", ".",
                                   "j", "s", "o", "n">>)
    THEN ContentType("application/vnd.readium.content+json", "charset=utf-8")
    ELSE IF HasSuffix(pathLower, <<"p", "o", "s", "i", "t", "i", "o", "n",
                                   "s", ".", "j", "s", "o", "n">>)
    THEN ContentType("application/vnd.readium.position-list+json", "charset=utf-8")
    ELSE CASE ext = <<".", "j", "s", "o", "n">> -> ContentType("application/json", "charset=utf-8")
           [] ext = <<".", "h", "t", "m", "l">> \/ ext = <<".", "h", "t", "m">> -> ContentType("text/html", "")
           [] ext = <<".", "x", "h", "t", "m", "l">> -> ContentType("application/xhtml+xml", "")
           [] ext = <<".", "c", "s", "s">> -> ContentType("text/css", "")
           [] ext = <<".", "j", "s">> -> ContentType("application/javascript", "")
           [] ext = <<".", "p", "n", "g">> -> ContentType("image/png", "")
           [] ext = <<".", "j", "p", "g">> \/ ext = <<".", "j", "p", "e", "g">> -> ContentType("image/jpeg", "")
           [] ext = <<".", "g", "i", "f">> -> ContentType("image/gif", "")
           [] ext = <<".", "s", "v", "g">> -> ContentType("image/svg+xml", "")
           [] ext = <<".", "x", "m", "l">> -> ContentType("application/xml", "")
           [] ext = <<".", "n", "c", "x">> -> ContentType("application/x-dtbncx+xml", "")
           [] ext = <<".", "o", "p", "f">> -> ContentType("application/oebps-package+xml", "")
           [] OTHER -> ContentType("application/octet-stream", "")

PathDirs == {<<"b", "/">>, <<"b", "/", "r", "e", "a", "d", "i", "u", "m", "/">>, <<
                                                                                   "b",
                                                                                   ".",
                                                                                   "v",
                                                                                   "2",
                                                                                   "/">>}

PathStems == {<<"m", "a", "n", "i", "f", "e", "s", "t">>, <<"c", "o", "n",
                                                            "t", "e", "n", "t">>, <<
                                                                                    "p",
                                                                                    "o",
                                                                                    "s",
                                                                                    "i",
                                                                                    "t",
                                                                                    "i",
                                                                                    "o",
                                                                                    "n",
                                                                                    "s">>, <<
                                                                                             "m",
                                                                                             "y",
                                                                                             "m",
                                                                                             "a",
                                                                                             "n",
                                                                                             "i",
                                                                                             "f",
                                                                                             "e",
                                                                                             "s",
                                                                                             "t">>,
              <<"M", "A", "N", "I", "F", "E", "S", "T">>, <<"c", "o", "v",
                                                            "e", "r">>}

PathExts == {<<>>, <<".", "j", "s", "o", "n">>, <<".", "J", "S", "O", "N">>, <<
                                                                               ".",
                                                                               "h",
                                                                               "t",
                                                                               "m",
                                                                               "l">>, <<
                                                                                        ".",
                                                                                        "h",
                                                                                        "t",
                                                                                        "m">>, <<
                                                                                                 ".",
                                                                                                 "x",
                                                                                                 "h",
                                                                                                 "t",
                                                                                                 "m",
                                                                                                 "l">>,
             <<".", "c", "s", "s">>, <<".", "j", "s">>, <<".", "p", "n", "g">>, <<
                                                                                  ".",
                                                                                  "j",
                                                                                  "p",
                                                                                  "g">>, <<
                                                                                           ".",
                                                                                           "j",
                                                                                           "p",
                                                                                           "e",
                                                                                           "g">>, <<
                                                                                                    ".",
                                                                                                    "g",
                                                                                                    "i",
                                                                                                    "f">>,
             <<".", "s", "v", "g">>, <<".", "x", "m", "l">>, <<".", "n", "c",
                                                               "x">>, <<".",
                                                                        "o",
                                                                        "p",
                                                                        "f">>, <<
                                                                                 ".",
                                                                                 "b",
                                                                                 "i",
                                                                                 "n">>, <<
                                                                                          ".",
                                                                                          "j",
                                                                                          "s",
                                                                                          "o",
                                                                                          "n",
                                                                                          ".",
                                                                                          "b",
                                                                                          "a",
                                                                                          "k">>}

Paths == {d \o s \o e : d \in PathDirs, s \in PathStems, e \in PathExts}

\* uploadToSupabase is handed getContentType(path)
callGetContentType ==
    /\ tpc = "call"
    /\ contentType' = getContentType(pathArg)
    /\ tpc' = "done"
    /\ UNCHANGED pathArg

TInit ==
    /\ pathArg \in Paths
    /\ tpc = "call"
    /\ contentType = ContentType("", "")

InitContentType == WIdle /\ PIdle /\ RIdle /\ MIdle /\ TInit /\ HIdle /\ CIdle /\ BIdle

NextContentType ==
    callGetContentType /\ UNCHANGED <<wvars, pvars, rvars, mvars, hvars, cvars, bvars>>

SpecContentType == InitContentType /\ [][NextContentType]_vars

RECURSIVE FileNameFrom(_, _)
FileNameFrom(p, i) ==
    IF i < 1 \/ p[i] = "/" THEN SubSeq(p, i + 1, Len(p)) ELSE FileNameFrom(p, i - 1)

\* the last element of the path
FileName(p) == FileNameFrom(p, Len(p))

\* the media type the specification lists for the path
ListedType(p) ==
    LET name == ToLower(FileName(p))
        ext == ToLower(Ext(p)) IN
    CASE name = <<"m", "a", "n", "i", "f", "e", "s", "t", ".", "j", "s", "o",
                  "n">> -> "application/webpub+json"
      [] name = <<"c", "o", "n", "t", "e", "n", "t", ".", "j", "s", "o", "n">> -> "application/vnd.readium.content+json"
      [] name = <<"p", "o", "s", "i", "t", "i", "o", "n", "s", ".", "j", "s",
                  "o", "n">> -> "application/vnd.readium.position-list+json"
      [] OTHER ->
         CASE ext = <<".", "j", "s", "o", "n">> -> "application/json"
           [] ext \in {<<".", "h", "t", "m", "l">>, <<".", "h", "t", "m">>} -> "text/html"
           [] ext = <<".", "x", "h", "t", "m", "l">> -> "application/xhtml+xml"
           [] ext = <<".", "c", "s", "s">> -> "text/css"
           [] ext = <<".", "j", "s">> -> "application/javascript"
           [] ext = <<".", "p", "n", "g">> -> "image/png"
           [] ext \in {<<".", "j", "p", "g">>, <<".", "j", "p", "e", "g">>} -> "image/jpeg"
           [] ext = <<".", "g", "i", "f">> -> "image/gif"
           [] ext = <<".", "s", "v", "g">> -> "image/svg+xml"
           [] ext = <<".", "x", "m", "l">> -> "application/xml"
           [] ext = <<".", "n", "c", "x">> -> "application/x-dtbncx+xml"
           [] ext = <<".", "o", "p", "f">> -> "application/oebps-package+xml"
           [] OTHER -> "application/octet-stream"

\* C19: the resolver gives a path the media type listed for it: the Readium
\* types for files named manifest.json, content.json and positions.json and
\* for no other file, application/json for any other .json, the listed type
\* for the other known extensions, application/octet-stream otherwise.
C19_ListedContentType ==
    tpc = "done" => contentType.type = ListedType(pathArg)

-----------------------------------------------------------------------------
(* handler.                                                                 *)

TrimSuffix(s, p) == IF HasSuffix(s, p) THEN SubSeq(s, 1, Len(s) - Len(p)) ELSE s

Methods == {"POST", "GET", "PUT", "post"}

SupabaseURLs == {<<>>, <<"h", "t", "t", "p", "s", ":", "/", "/", "s">>, <<
                                                                          "h",
                                                                          "t",
                                                                          "t",
                                                                          "p",
                                                                          "s",
                                                                          ":",
                                                                          "/",
                                                                          "/",
                                                                          "s",
                                                                          "/">>}
ServiceKeys == {<<>>, <<"k">>}

Filenames == {<<"b", ".", "e", "p", "u", "b">>, <<"/", "b", ".", "e", "p",
                                                  "u", "b">>, <<"d", "/",
                                                                "b", ".",
                                                                "e", "p",
                                                                "u", "b">>, <<
                                                                              ".",
                                                                              ".",
                                                                              "/",
                                                                              ".",
                                                                              ".",
                                                                              "/",
                                                                              "e",
                                                                              "t",
                                                                              "c",
                                                                              "/",
                                                                              "p",
                                                                              "a",
                                                                              "s",
                                                                              "s",
                                                                              "w",
                                                                              "d">>,
              <<"a", ".", ".", "b", ".", "e", "p", "u", "b">>, <<"/", ".",
                                                                 ".", "/",
                                                                 "x", ".",
                                                                 "e", "p",
                                                                 "u", "b">>}

\* request.Body: the empty string, text that is not JSON, JSON that is not
\* an object of strings, or an object of strings whose "filename" is the
\* given text (<<>> when the key is absent or its value is empty)
Bodies ==
    {[kind |-> "empty", filename |-> <<>>],
     [kind |-> "notJSON", filename |-> <<>>],
     [kind |-> "notStringMap", filename |-> <<"b", ".", "e", "p", "u", "b">>],
     [kind |-> "object", filename |-> <<>>]}
    \cup {[kind |-> "object", filename |-> f] : f \in Filenames}

\* the filename query parameter of the request, <<>> when there is none
QueryFilenames == {<<>>, <<"b", ".", "e", "p", "u", "b">>}

Requests ==
    {[method |-> m, body |-> b, query |-> q] :
        m \in Methods, b \in Bodies, q \in QueryFilenames}

NoResponse == [statusCode |-> 0, body |-> [kind |-> "none", status |-> 0], err |-> "nil"]

\* createErrorResponse(statusCode, message), returned with a nil error;
\* json.Marshal of the ErrorResponse struct cannot fail
createErrorResponse(statusCode) ==
    [statusCode |-> statusCode,
     body |-> [kind |-> "error", status |-> statusCode],
     err |-> "nil"]

\* the 200 response of handler
successResponse ==
    [statusCode |-> 200, body |-> [kind |-> "message", status |-> 200], err |-> "nil"]

\* variant: GET is let through as well
methodAllowedWithGet(m) == m \in {"POST", "GET"}

\* "request.RequestContext.HTTP.Method != "POST"" lets the request through
methodAllowed(m) == m = "POST"

\* variant: a filename of the body is used although json.Unmarshal failed
bodyFilenameIgnoringError(body) == body.filename

\* the filename taken from request.Body: json.Unmarshal into a
\* map[string]string fails on text that is not an object of strings
bodyFilename(body) ==
    IF body.kind = "empty" THEN <<>>
    ELSE IF body.kind = "object" THEN body.filename
    ELSE <<>>

\* variant: the filename query parameter is used when the body gives none
requestFilenameWithQuery(req) ==
    IF bodyFilename(req.body) = <<>> THEN req.query ELSE bodyFilename(req.body)

\* the filename handler takes from the request: the body is its only source
requestFilename(req) == bodyFilename(req.body)

\* variant: only the SUPABASE_URL is looked at
envMissingURLOnly(e) == e.url = <<>>

\* "supabaseURL == """ or "supabaseServiceKey == """
envMissing(e) == e.url = <<>> \/ e.key = <<>>

\* variant: only a leading ../ is refused
hasPathTraversalPrefixOnly(name) == HasPrefix(name, <<".", ".", "/">>)

\* strings.Contains(epubFilename, "..")
hasPathTraversal(name) == Contains(name, <<".", ".">>)

storageURL(supabaseURL, filename) ==
    TrimSuffix(supabaseURL, Slash) \o <<"/", "s", "t", "o", "r", "a", "g",
                                        "e", "/", "v", "1", "/", "o", "b",
                                        "j", "e", "c", "t", "/">> \o <<"e",
                                                                       "p",
                                                                       "u",
                                                                       "b",
                                                                       "s">>
        \o Slash \o filename

respond(r) == response' = r /\ hpc' = "done"

\* lines 52-54
checkMethod ==
    /\ hpc = "method"
    /\ IF methodAllowed(request.method)
       THEN hpc' = "env" /\ UNCHANGED response
       ELSE respond(createErrorResponse(405))
    /\ UNCHANGED <<request, env, epubFilename, downloads, processed>>

\* lines 57-66
checkEnv ==
    /\ hpc = "env"
    /\ IF envMissing(env)
       THEN respond(createErrorResponse(500))
       ELSE hpc' = "filename" /\ UNCHANGED response
    /\ UNCHANGED <<request, env, epubFilename, downloads, processed>>

\* lines 68-91: the filename is read from the body, checked and sanitized
readFilename ==
    /\ hpc = "filename"
    /\ LET filename == requestFilename(request)
           sanitized == TrimPrefix(filename, Slash) IN
       IF filename = <<>>
       THEN respond(createErrorResponse(400)) /\ UNCHANGED epubFilename
       ELSE IF hasPathTraversal(sanitized)
       THEN respond(createErrorResponse(400)) /\ epubFilename' = sanitized
       ELSE hpc' = "download" /\ epubFilename' = sanitized /\ UNCHANGED response
    /\ UNCHANGED <<request, env, downloads, processed>>

\* lines 93-105: downloadEPUBFromSupabase(storageURL, key) and its outcome
downloadEPUB ==
    /\ hpc = "download"
    /\ downloads' = Append(downloads, storageURL(env.url, epubFilename))
    /\ \E ok \in BOOLEAN :
          IF ok THEN hpc' = "process" /\ UNCHANGED response
          ELSE respond(createErrorResponse(500))
    /\ UNCHANGED <<request, env, epubFilename, processed>>

\* lines 107-136: processEPUB, which uploads, and the response
runProcessEPUB ==
    /\ hpc = "process"
    /\ \E ok \in BOOLEAN :
          /\ processed' = Append(processed, [filename |-> epubFilename, ok |-> ok])
          /\ IF ok THEN respond(successResponse)
             ELSE respond(createErrorResponse(500))
    /\ UNCHANGED <<request, env, epubFilename, downloads>>

HInit ==
    /\ request \in Requests
    /\ env \in [url : SupabaseURLs, key : ServiceKeys]
    /\ hpc = "method"
    /\ epubFilename = <<>>
    /\ response = NoResponse
    /\ downloads = <<>>
    /\ processed = <<>>

InitHandler == WIdle /\ PIdle /\ RIdle /\ MIdle /\ TIdle /\ HInit /\ CIdle /\ BIdle

NextHandler ==
    \/ checkMethod /\ UNCHANGED <<wvars, pvars, rvars, mvars, tvars, cvars, bvars>>
    \/ checkEnv /\ UNCHANGED <<wvars, pvars, rvars, mvars, tvars, cvars, bvars>>
    \/ readFilename /\ UNCHANGED <<wvars, pvars, rvars, mvars, tvars, cvars, bvars>>
    \/ downloadEPUB /\ UNCHANGED <<wvars, pvars, rvars, mvars, tvars, cvars, bvars>>
    \/ runProcessEPUB /\ UNCHANGED <<wvars, pvars, rvars, mvars, tvars, cvars, bvars>>

SpecHandler == InitHandler /\ [][NextHandler]_vars

EnvConfigured == env.url # <<>> /\ env.key # <<>>

ErrorAnswer(code) ==
    /\ response.statusCode = code
    /\ response.body = [kind |-> "error", status |-> code]
    /\ response.err = "nil"

NothingFetchedOrStored == downloads = <<>> /\ processed = <<>>

C22_MissingFilename ==
    (/\ request.method = "POST"
     /\ EnvConfigured
     /\ \/ request.body.kind \in {"empty", "notJSON", "notStringMap"}
        \/ request.body.filename = <<>>)
    => /\ NothingFetchedOrStored
       /\ hpc \in {"method", "env", "filename", "done"}
       /\ hpc = "done" => ErrorAnswer(400)

\* a POST whose body is JSON but no object of strings, although it names a
\* file, has been answered 400
C22_Witness ==
    /\ hpc = "done"
    /\ request.method = "POST"
    /\ EnvConfigured
    /\ request.body.kind = "notStringMap" /\ request.body.filename # <<>>
    /\ response.statusCode = 400

\* the filename the request carries in its body
CarriedFilename ==
    IF request.body.kind = "object" THEN request.body.filename ELSE <<>>

-----------------------------------------------------------------------------
(* generateContentJSON: the content projection.                             *)

MaxTocRoots == 2   \* top-level entries of the table of contents projected

tPart == <<"P", "a", "r", "t", " ", "O", "n", "e">>

\* a TOC entry with two levels below it
tocPart ==
    [href |-> hSlashA, title |-> tPart, rels |-> <<>>, type |-> XhtmlType,
     children |-> <<tocChapter, tocStart>>]

ContentTocPool == {tocContents, tocCopyright, tocChapter, tocPart}

ContentManifests ==
    {[readingOrder |-> ro, toc |-> toc, links |-> <<>>, resources |-> <<>>] :
        ro \in SynReadingOrders, toc \in SeqsUpTo(ContentTocPool, MaxTocRoots)}

\* variant: the children of a link are left out
buildContentItemFlat(link) ==
    [href |-> TrimPrefix(link.href, Slash), title |-> link.title, type |-> link.type]

RECURSIVE buildContentItemFromLink(_)
\* title <<>> and type "" stand for an item without that key; "children" is
\* a key of the item only when the link has children
buildContentItemFromLink(link) ==
    LET item == [href |-> TrimPrefix(link.href, Slash),
                 title |-> link.title,
                 type |-> link.type] IN
    IF Len(link.children) > 0
    THEN item @@ ("children" :> [i \in 1..Len(link.children) |->
                                    buildContentItemFromLink(link.children[i])])
    ELSE item

\* an item of the reading-order fallback
readingOrderContentItem(link) ==
    [href |-> TrimPrefix(link.href, Slash), title |-> link.title, type |-> link.type]

\* lines 778-802: the structure, from the table of contents or, when it is
\* empty, from the reading order
projectStructure ==
    /\ cpc = "structure"
    /\ structure' =
          IF Len(srcManifest.toc) > 0
          THEN [i \in 1..Len(srcManifest.toc) |->
                   buildContentItemFromLink(srcManifest.toc[i])]
          ELSE [i \in 1..Len(srcManifest.readingOrder) |->
                   readingOrderContentItem(srcManifest.readingOrder[i])]
    /\ cpc' = "marshal"
    /\ UNCHANGED contentData

\* lines 804-812: metadata and structure are marshalled
marshalContent ==
    /\ cpc = "marshal"
    /\ contentData' = [metadata |-> [numberOfItems |-> Len(structure)],
                       structure |-> structure]
    /\ cpc' = "done"
    /\ UNCHANGED structure

CInit ==
    /\ cpc = "structure"
    /\ structure = <<>>
    /\ contentData = <<>>

InitContent ==
    /\ WIdle /\ PIdle /\ RIdle /\ TIdle /\ HIdle /\ CInit /\ BIdle
    /\ srcManifest \in ContentManifests
    /\ mpc = "idle"
    /\ updatedManifest = <<>>
    /\ landmarks = <<>>
    /\ landmarkHrefs = {}

NextContent ==
    \/ projectStructure /\ UNCHANGED <<wvars, pvars, rvars, mvars, tvars, hvars, bvars>>
    \/ marshalContent /\ UNCHANGED <<wvars, pvars, rvars, mvars, tvars, hvars, bvars>>

SpecContent == InitContent /\ [][NextContent]_vars

RECURSIVE MirrorsForest(_, _)
\* out has one node per node of the forest src, in the same order and with
\* the same nesting and titles, hrefs without their leading slash, and a
\* children key exactly on the nodes that have children
MirrorsForest(out, src) ==
    /\ Len(out) = Len(src)
    /\ \A i \in 1..Len(src) :
          /\ out[i].href = (IF Len(src[i].href) > 0 /\ src[i].href[1] = "/"
                            THEN Tail(src[i].href) ELSE src[i].href)
          /\ out[i].title = src[i].title
          /\ ("children" \in DOMAIN out[i]) <=> (Len(src[i].children) > 0)
          /\ Len(src[i].children) > 0 => MirrorsForest(out[i].children, src[i].children)

\* C25: content.json has one structure node per node of the TOC forest, in
\* order, with the same nesting and titles, hrefs without their leading
\* slash and children only where the node has children; with an empty TOC
\* the structure is the reading order as a flat list; numberOfItems is the
\* number of top-level structure entries.
C25_ContentMirrorsTOC ==
    cpc = "done" =>
        /\ contentData.metadata.numberOfItems = Len(contentData.structure)
        /\ IF srcManifest.toc # <<>>
           THEN MirrorsForest(contentData.structure, srcManifest.toc)
           ELSE /\ MirrorsForest(contentData.structure, srcManifest.readingOrder)
                /\ \A i \in 1..Len(contentData.structure) :
                      "children" \notin DOMAIN contentData.structure[i]

\* a three-level TOC entry with a rooted href has been projected
C25_Witness ==
    /\ cpc = "done"
    /\ srcManifest.toc = <<tocPart, tocContents>>
    /\ contentData.metadata.numberOfItems = 2
    /\ contentData.structure[1].href = hA
    /\ Len(contentData.structure[1].children) = 2
    /\ contentData.structure[1].children[1].children[1].title = tContentsUpper
    /\ "children" \notin DOMAIN contentData.structure[2]

-----------------------------------------------------------------------------
(* The base output path of processEPUB (lines 242-246): the filename        *)
(* without its extension, with / and \ replaced by _. Every artifact of a   *)
(* call is stored under it.                                                 *)

MaxRuns == 2     \* calls of processEPUB, each for a filename

\* strings.ReplaceAll for a one-character old and new
ReplaceAll(s, old, new) == [i \in 1..Len(s) |-> IF s[i] = old THEN new ELSE s[i]]

\* basePath of processEPUB for the file epubFilename
basePathOf(filename) ==
    ReplaceAll(ReplaceAll(TrimSuffix(filename, Ext(filename)), "/", "_"), "\\", "_")

BasePathFilenames ==
    {<<"b", ".", "e", "p", "u", "b">>, <<"c", ".", "e", "p", "u", "b">>, <<
                                                                           "d",
                                                                           "/",
                                                                           "b",
                                                                           ".",
                                                                           "e",
                                                                           "p",
                                                                           "u",
                                                                           "b">>, <<
                                                                                    "d",
                                                                                    "_",
                                                                                    "b",
                                                                                    ".",
                                                                                    "e",
                                                                                    "p",
                                                                                    "u",
                                                                                    "b">>,
     <<"d", "\\", "b", ".", "e", "p", "u", "b">>,
     <<"b", ".", "p", "d", "f">>, <<"b">>, <<"a", ".", "b", ".", "e", "p",
                                             "u", "b">>, <<"d", ".", "x",
                                                           "/", "b">>, <<"d",
                                                                         "/",
                                                                         "e",
                                                                         "/",
                                                                         "b",
                                                                         ".",
                                                                         "e",
                                                                         "p",
                                                                         "u",
                                                                         "b">>,
     <<"/", "b", ".", "e", "p", "u", "b">>, <<".", ".", "/", "b", ".", "e",
                                              "p", "u", "b">>}

\* the filenames handler hands to processEPUB: not empty, the leading /
\* removed, without ..
AcceptedFilenames ==
    {TrimPrefix(f, Slash) : f \in {g \in BasePathFilenames :
                                      g # <<>> /\ ~hasPathTraversal(TrimPrefix(g, Slash))}}

\* a call of processEPUB: the base path and the storage path of its manifest
deriveBasePath ==
    /\ Len(runs) < MaxRuns
    /\ \E f \in AcceptedFilenames :
          runs' = Append(runs, [filename |-> f,
                                basePath |-> basePathOf(f),
                                manifestPath |-> basePathOf(f) \o Slash \o ManifestFile])

BInit == runs = <<>>

InitBasePath == WIdle /\ PIdle /\ RIdle /\ MIdle /\ TIdle /\ HIdle /\ CIdle /\ BInit

NextBasePath ==
    deriveBasePath /\ UNCHANGED <<wvars, pvars, rvars, mvars, tvars, hvars, cvars>>

SpecBasePath == InitBasePath /\ [][NextBasePath]_vars

HasSeparator(s) == \E i \in 1..Len(s) : s[i] \in {"/", "\\"}

\* C30: the base path derived from the filename contains no path separator,
\* and distinct accepted filenames yield distinct base paths, so the
\* artifacts of two different input files never share a storage path.
C30_BasePathsDistinct ==
    /\ \A i \in 1..Len(runs) : ~HasSeparator(runs[i].basePath)
    /\ \A i, j \in 1..Len(runs) :
          runs[i].filename # runs[j].filename =>
              /\ runs[i].basePath # runs[j].basePath
              /\ runs[i].manifestPath # runs[j].manifestPath

\* the part of C30 that holds: no base path contains / or \
BasePathHasNoSeparator ==
    \A i \in 1..Len(runs) : ~HasSeparator(runs[i].basePath)

====
